---- MODULE Spec2Model ----
(***************************************************************************)
(* ETL-Project/etl_script.py: extract (CSV/JSON/XML/TXT) -> transform      *)
(* (merge by name / employee id) -> load (upsert into Customer, Employee). *)
(* e-sport-analytical-app/backend/app/routers/live_data.py: the cached     *)
(* live-data endpoints (matches, players, tournaments).                    *)
(*                                                                         *)
(* Values.  A Python str is a sequence of one-character strings; None is   *)
(* the one-element sequence <<"None">> (no character has four letters); a  *)
(* dict is a function whose DOMAIN is its key set; a list is a sequence.   *)
(* JSON numbers of the salary file are tagged, [num |-> n], so that a      *)
(* non-numeric JSON value, [text |-> s], can stand next to them.           *)
(***************************************************************************)
EXTENDS Integers, Sequences, FiniteSets, TLC

VARIABLES
    pc,             \* position of the process in run_etl
    run,            \* number of the current run_etl invocation
    files,          \* the input files on disk: FILE_PATHS key -> content or Missing
    c_csv, c_json, c_bill, e_csv, e_veh, e_sal, e_flags,   \* locals of run_etl
    customers, employees,                                  \* locals of run_etl
    CustomerRows,   \* committed rows of table Customer, in insertion order
    EmployeeRows,   \* committed rows of table Employee, in insertion order
    log,            \* messages written by this process (logging.* and print)
    rowCounts,      \* <<#Customer, #Employee>> when the previous run ended
    budget,         \* records the loader driver may still hand to the loaders
    now,            \* live_data.py: datetime.now(), in minutes
    cache,          \* live_data.py: _cache['matches' / 'players' / 'tournaments']
    last_update,    \* live_data.py: _cache['last_update']
    response,       \* live_data.py: the last request served and what it returned
    requests,       \* live_data.py: number of requests served
    dashboard_data, \* automation.py: LiveDashboard.dashboard_data
    feed,           \* automation.py: the RealTimeDataFeed of the dashboard and its thread
    arrivals,       \* automation.py: data points handed to the dashboard so far
    partials,       \* automation.py: how many of them lacked a key
    hourly          \* automation.py: one call of AutomatedAnalysis.run_hourly_check

etlVars == <<pc, run, files, c_csv, c_json, c_bill, e_csv, e_veh, e_sal, e_flags,
             customers, employees, CustomerRows, EmployeeRows, log, rowCounts, budget>>
liveVars == <<now, cache, last_update, response, requests>>
teslaVars == <<dashboard_data, feed, arrivals, partials, hourly>>
vars == <<pc, run, files, c_csv, c_json, c_bill, e_csv, e_veh, e_sal, e_flags,
          customers, employees, CustomerRows, EmployeeRows, log, rowCounts, budget,
          now, cache, last_update, response, requests,
          dashboard_data, feed, arrivals, partials, hourly>>

(***************************************************************************)
(* Bounds of the model.                                                    *)
(***************************************************************************)
MaxRecs == 2        \* records in the customer (resp. employee) source files
MaxRuns == 2        \* run_etl invocations on the same files
MaxLoaded == 3      \* records handed to the loaders by the loader driver
MaxRequests == 2    \* requests served by the live-data endpoints
MaxTicks == 3       \* advances of the clock the live-data endpoints read
MaxUpdates == 102   \* calls of LiveDashboard.update_dashboard
MaxPartial == 1     \* calls of update_dashboard with a dict that lacks a key
MaxMessages == 3    \* messages handed to RealTimeDataFeed.on_message

(***************************************************************************)
(* Python values.                                                          *)
(***************************************************************************)
None == <<"None">>
Empty == <<>>
S(c) == <<c>>                       \* the one-character string c
Num(n) == [num |-> n]               \* a JSON / Python number
Text(s) == [text |-> s]             \* a JSON string where a number is expected

\* bool(v) of a str or None
Truthy(v) == v # None /\ v # Empty

\* f"{v}" : str(None) is the text None
Format(v) == IF v = None THEN <<"N", "o", "n", "e">> ELSE v

IsSpace(ch) == ch = " "

RECURSIVE LStrip(_)
LStrip(s) == IF s # <<>> /\ IsSpace(Head(s)) THEN LStrip(Tail(s)) ELSE s

RECURSIVE RStrip(_)
RStrip(s) == IF s # <<>> /\ IsSpace(s[Len(s)]) THEN RStrip(SubSeq(s, 1, Len(s) - 1)) ELSE s

\* str.strip()
Strip(s) == RStrip(LStrip(s))

\* dict.get(k, d)
Get(d, k, default) == IF k \in DOMAIN d THEN d[k] ELSE default

\* a.update(c): the keys of c overwrite, the other keys of a stay
Update(a, c) == [k \in DOMAIN a \cup DOMAIN c |-> IF k \in DOMAIN c THEN c[k] ELSE a[k]]

\* {}
EmptyDict == [k \in {} |-> Empty]

Range(s) == {s[i] : i \in 1..Len(s)}

\* index of the last element of s satisfying key(s[i]) = k, 0 if none
LastIndex(s, field, k) ==
    LET hits == {i \in 1..Len(s) : s[i][field] = k}
    IN IF hits = {} THEN 0 ELSE CHOOSE i \in hits : \A j \in hits : j <= i

(***************************************************************************)
(* transform_customers                                                     *)
(***************************************************************************)
\* line 175: f"{first} {last}".strip() or company_name
CustomerName(c) ==
    LET full == Strip(Format(Get(c, "first_name", Empty)) \o S(" ")
                      \o Format(Get(c, "last_name", Empty)))
    IN IF Truthy(full) THEN full ELSE Get(c, "company_name", Empty)

\* lines 178-189: the dict setdefault() creates for a new key
CustomerDefaults(key, c) ==
    [name |-> key,
     first_name |-> Get(c, "first_name", Empty),
     last_name |-> Get(c, "last_name", Empty),
     company_name |-> Get(c, "company_name", Empty),
     customer_type |-> Get(c, "customer_type", Empty),
     subscription_type |-> Get(c, "subscription_type", Empty),
     email |-> Get(c, "email", None),
     phone_number |-> Get(c, "phone_number", Empty),
     dob |-> Get(c, "dob", Empty),
     sex |-> Get(c, "sex", Empty)]

\* position of key in the dict's key list, 0 if absent
KeyIndex(keys, key) ==
    IF \E i \in 1..Len(keys) : keys[i] = key
    THEN CHOOSE i \in 1..Len(keys) : keys[i] = key
    ELSE 0

\* mutant: the guard of line 176 left out
CustomerNeverSkipped(c) == FALSE

\* line 176: the guard that drops a record
CustomerSkipped(c) == ~Truthy(CustomerName(c))

\* mutant: a key seen before keeps its values, the later record only adds
\* fields
MergeCustomerFirstWins(acc, c) ==
    IF CustomerSkipped(c) THEN acc
    ELSE LET key == Strip(CustomerName(c))
             i == KeyIndex(acc.keys, key)
         IN IF i = 0
            THEN [keys |-> Append(acc.keys, key),
                  vals |-> Append(acc.vals, Update(CustomerDefaults(key, c), c))]
            ELSE [acc EXCEPT !.vals[i] = Update(c, @)]

\* one iteration of the loop of lines 174-189 on the dict acc (keys in
\* insertion order, vals[i] the value of keys[i])
MergeCustomer(acc, c) ==
    IF CustomerSkipped(c) THEN acc
    ELSE LET key == Strip(CustomerName(c))
             i == KeyIndex(acc.keys, key)
         IN IF i = 0
            THEN [keys |-> Append(acc.keys, key),
                  vals |-> Append(acc.vals, Update(CustomerDefaults(key, c), c))]
            ELSE [acc EXCEPT !.vals[i] = Update(@, c)]

RECURSIVE MergeCustomers(_, _)
MergeCustomers(acc, recs) ==
    IF recs = <<>> THEN acc ELSE MergeCustomers(MergeCustomer(acc, Head(recs)), Tail(recs))

\* lines 172-190
transform_customers(csv_data, json_data) ==
    MergeCustomers([keys |-> <<>>, vals |-> <<>>], csv_data \o json_data).vals

(***************************************************************************)
(* transform_customers_with_billing                                        *)
(***************************************************************************)
\* the first record of a name wins
BillingForFirst(billing, name) ==
    LET hits == {i \in 1..Len(billing) : billing[i]["name"] = name}
    IN IF hits = {} THEN EmptyDict ELSE billing[CHOOSE i \in hits : \A j \in hits : i <= j]

\* line 193 and 195: billing_map.get(name, {}) ; the last record of a name wins
BillingFor(billing, name) ==
    LET i == LastIndex(billing, "name", name)
    IN IF i = 0 THEN EmptyDict ELSE billing[i]

\* lines 196-204
WithBilling(cust, b) ==
    Update(cust,
        [phone_number |-> IF Truthy(Get(cust, "phone_number", None))
                          THEN cust["phone_number"]
                          ELSE Get(b, "phone_number", Empty),
         payment_method |-> Get(b, "payment_method", Empty),
         street |-> Get(b, "street", Empty),
         city |-> Get(b, "city", Empty),
         postcode |-> Get(b, "postcode", Empty),
         card_number |-> Get(b, "card_number", Empty),
         card_cvv |-> Get(b, "card_cvv", Empty)])

\* lines 192-205
transform_customers_with_billing(basic, billing) ==
    [i \in 1..Len(basic) |-> WithBilling(basic[i], BillingFor(billing, basic[i]["name"]))]

(***************************************************************************)
(* safe_int, str.lower, str()                                              *)
(***************************************************************************)
DigitChars == <<"0", "1", "2", "3", "4", "5", "6", "7", "8", "9">>
IsDigit(ch) == \E i \in 1..10 : DigitChars[i] = ch
DigitValue(ch) == (CHOOSE i \in 1..10 : DigitChars[i] = ch) - 1

RECURSIVE DecimalValue(_)
DecimalValue(s) ==
    IF s = <<>> THEN 0
    ELSE 10 * DecimalValue(SubSeq(s, 1, Len(s) - 1)) + DigitValue(s[Len(s)])

\* int(value) succeeds: a run of digits, blanks around it allowed
IsIntText(v) ==
    /\ v # None
    /\ Strip(v) # <<>>
    /\ \A i \in 1..Len(Strip(v)) : IsDigit(Strip(v)[i])

\* lines 85-89
safe_int(value, default) == IF IsIntText(value) THEN DecimalValue(Strip(value)) ELSE default

RECURSIVE Decimal(_)
Decimal(n) == IF n < 10 THEN S(DigitChars[n + 1]) ELSE Decimal(n \div 10) \o S(DigitChars[(n % 10) + 1])

\* str(v) of a JSON scalar
Str(v) == IF "num" \in DOMAIN v THEN Decimal(v.num) ELSE v.text

UpperChars == <<"T", "R", "U", "E", "F", "A", "L", "S">>
LowerChars == <<"t", "r", "u", "e", "f", "a", "l", "s">>
LowerChar(ch) ==
    IF \E i \in 1..Len(UpperChars) : UpperChars[i] = ch
    THEN LowerChars[CHOOSE i \in 1..Len(UpperChars) : UpperChars[i] = ch]
    ELSE ch
\* str.lower()
Lower(s) == [i \in 1..Len(s) |-> LowerChar(s[i])]

Unknown == <<"U", "n", "k", "n", "o", "w", "n">>

(***************************************************************************)
(* transform_employees                                                     *)
(***************************************************************************)
\* the first vehicle record of a name wins
VehicleForFirst(vehicle_data, full_name) ==
    LET hits == {i \in 1..Len(vehicle_data) : vehicle_data[i]["FullName"] = full_name}
    IN IF hits = {} THEN EmptyDict
       ELSE vehicle_data[CHOOSE i \in hits : \A j \in hits : i <= j]

\* line 209 and 236: vehicle_dict.get(full_name, {})
VehicleFor(vehicle_data, full_name) ==
    LET i == LastIndex(vehicle_data, "FullName", full_name)
    IN IF i = 0 THEN EmptyDict ELSE vehicle_data[i]

\* line 210 and 245: salary_dict.get(employee_id, {}), keys are str(employee_id)
SalaryFor(salary_data, employee_id) ==
    LET hits == {i \in 1..Len(salary_data) : Str(salary_data[i]["employee_id"]) = employee_id}
    IN IF hits = {} THEN EmptyDict
       ELSE salary_data[CHOOSE i \in hits : \A j \in hits : j <= i]

\* line 215: the guard that drops a row
EmployeeSkipped(emp) == ~Truthy(Get(emp, "employee_id", Empty))

\* lines 219-250: the record built for one row
EmployeeInfo(emp, vehicle_data, salary_data) ==
    LET first == Get(emp, "first_name", Unknown)
        last == Get(emp, "last_name", Unknown)
        full_name == Format(first) \o S(" ") \o Format(last)
        vehicle_info == VehicleFor(vehicle_data, full_name)
        salary_info == SalaryFor(salary_data, emp["employee_id"])
    IN [employee_id |-> emp["employee_id"],
        first_name |-> first,
        last_name |-> last,
        role |-> Get(emp, "role", Unknown),
        department |-> Get(emp, "department", Unknown),
        age |-> safe_int(Get(emp, "age", None), 0),
        retired |-> Lower(Get(emp, "retired", <<"f", "a", "l", "s", "e">>)) = <<"t", "r", "u", "e">>,
        dependants |-> IF "dependants" \in DOMAIN emp THEN safe_int(emp["dependants"], 0) ELSE 0,
        marital_status |-> Get(emp, "marital_status", Empty),
        vehicle_registration |-> Get(vehicle_info, "RegistrationNumber", Empty),
        vehicle_make |-> Get(vehicle_info, "Make", Empty),
        vehicle_model |-> Get(vehicle_info, "Model", Empty),
        vehicle_year |-> Get(vehicle_info, "Year", 0),
        salary |-> Get(salary_info, "salary", Num(0)),
        pension |-> Get(salary_info, "pension", Num(0)),
        commute_distance |-> Get(salary_info, "commute_distance", Num(0))]

\* mutant: an inner join, rows without a salary record are left out
RECURSIVE transform_employees_inner(_, _, _)
transform_employees_inner(employee_csv, vehicle_data, salary_data) ==
    IF employee_csv = <<>> THEN <<>>
    ELSE LET emp == Head(employee_csv)
             rest == transform_employees_inner(Tail(employee_csv), vehicle_data, salary_data)
         IN IF EmployeeSkipped(emp) \/ SalaryFor(salary_data, emp["employee_id"]) = EmptyDict
            THEN rest
            ELSE <<EmployeeInfo(emp, vehicle_data, salary_data)>> \o rest

\* lines 207-254
RECURSIVE transform_employees(_, _, _)
transform_employees(employee_csv, vehicle_data, salary_data) ==
    IF employee_csv = <<>> THEN <<>>
    ELSE LET emp == Head(employee_csv)
             rest == transform_employees(Tail(employee_csv), vehicle_data, salary_data)
         IN IF EmployeeSkipped(emp) THEN rest
            ELSE <<EmployeeInfo(emp, vehicle_data, salary_data)>> \o rest

\* every element, whatever its key
SelectEvery(s, field, k) == s

\* line 259 and 261: the entries of one id, in the order of the list
SelectSeqBy(s, field, k) ==
    LET F[i \in 0..Len(s)] ==
            IF i = 0 THEN <<>>
            ELSE IF s[i][field] = k THEN Append(F[i - 1], s[i]) ELSE F[i - 1]
    IN F[Len(s)]

\* json.dumps of one prompt entry and of a list of them
DumpPrompt(p) ==
    <<"{\"employee_id\": \"">> \o p.employee_id \o <<"\", \"timestamp\": \"">> \o p.timestamp
        \o <<"\", \"prompt\": \"">> \o p.prompt \o <<"\"}">>

RECURSIVE DumpItems(_)
DumpItems(items) ==
    IF items = <<>> THEN <<>>
    ELSE IF Len(items) = 1 THEN DumpPrompt(items[1])
    ELSE DumpPrompt(items[1]) \o <<", ">> \o DumpItems(Tail(items))

Dumps(items) == <<"[">> \o DumpItems(items) \o <<"]">>

\* lines 256-262
merge_flagged_prompts(emps, prompts) ==
    [i \in 1..Len(emps) |->
        Update(emps[i],
               [flagged_prompts |-> Dumps(SelectSeqBy(prompts, "employee_id", emps[i]["employee_id"]))])]

(***************************************************************************)
(* Extractors                                                              *)
(***************************************************************************)
\* a file on disk: absent, or present with its parsed content (rows of
\* csv.DictReader, the JSON list, the children of the XML root, the lines)
Missing == [exists |-> FALSE, content |-> <<>>]
File(content) == [exists |-> TRUE, content |-> content]

\* lines 91-104: the value returned; isNone says the value is None
extract_file(file, file_type) ==
    IF file.exists THEN [isNone |-> FALSE, value |-> file.content]
    ELSE [isNone |-> file_type = "xml", value |-> <<>>]

\* mutant: a missing file is passed over in silence
ExtractLogSilent(file, path) == <<>>

\* line 103: what extract_file logs
ExtractLog(file, path) ==
    IF file.exists THEN <<>>
    ELSE <<[level |-> "WARNING", text |-> "Missing file", path |-> path, counts |-> <<>>]>>

\* extract_file(...) or []
OrEmptyList(r) == IF r.isNone \/ r.value = <<>> THEN <<>> ELSE r.value

\* lines 106-108 and 302
extract_customers_csv(file) == OrEmptyList(extract_file(file, "csv"))
extract_customers_json(file) == OrEmptyList(extract_file(file, "json"))
extract_file_json(file) == OrEmptyList(extract_file(file, "json"))

\* root.findall(tag): the children of the root with that tag, in order
FindAll(root, tag) ==
    LET F[i \in 0..Len(root)] ==
            IF i = 0 THEN <<>>
            ELSE IF root[i].tag = tag THEN Append(F[i - 1], root[i]) ELSE F[i - 1]
    IN F[Len(root)]

\* lines 115-125: the billing record of one <Customer> element
BillingRecord(cust) ==
    LET full == Strip(Get(cust.children, "FirstName", Empty) \o S(" ")
                      \o Get(cust.children, "LastName", Empty))
    IN [name |-> IF Truthy(full) THEN full ELSE Get(cust.children, "CompanyName", Empty),
        phone_number |-> Get(cust.children, "PhoneNo", Empty),
        payment_method |-> Get(cust.children, "PaymentMethod", Empty),
        street |-> Get(cust.children, "BillingAddress/Street", Empty),
        city |-> Get(cust.children, "BillingAddress/City", Empty),
        postcode |-> Get(cust.children, "BillingAddress/Postcode", Empty),
        card_number |-> Get(cust.children, "CardDetails/CardNumber", Empty),
        card_cvv |-> Get(cust.children, "CardDetails/CVV", Empty)]

\* lines 110-126
extract_customers_billing(file) ==
    LET root == extract_file(file, "xml")
    IN IF root.isNone THEN <<>>
       ELSE LET found == FindAll(root.value, "Customer")
            IN [i \in 1..Len(found) |-> BillingRecord(found[i])]

\* lines 137-149: the vehicle record of one <Employee> element that has a
\* <VehicleInfo> child
VehicleRecord(employee) ==
    LET vehicle_info == employee.children["VehicleInfo"]
    IN [FullName |-> Get(employee.attrs, "FirstName", Unknown) \o S(" ")
                     \o Get(employee.attrs, "SecondName", Unknown),
        RegistrationNumber |-> Get(vehicle_info, "RegistrationNumber", None),
        Make |-> Get(vehicle_info, "Make", None),
        Model |-> Get(vehicle_info, "Model", None),
        Year |-> safe_int(Get(vehicle_info, "Year", None), 0)]

\* line 131: `not root` is true of None and of a root without children
VehiclesRootFalsy(file) ==
    LET root == extract_file(file, "xml") IN root.isNone \/ root.value = <<>>

\* lines 128-150
extract_vehicles(file) ==
    IF VehiclesRootFalsy(file) THEN <<>>
    ELSE LET found == FindAll(extract_file(file, "xml").value, "Employee")
             F[i \in 0..Len(found)] ==
                 IF i = 0 THEN <<>>
                 ELSE IF "VehicleInfo" \in DOMAIN found[i].children
                      THEN Append(F[i - 1], VehicleRecord(found[i]))
                      ELSE F[i - 1]
         IN F[Len(found)]

\* line 132
VehiclesLog(file) ==
    IF VehiclesRootFalsy(file)
    THEN <<[level |-> "PRINT", text |-> "Failed to parse XML file or file is empty.",
            path |-> "", counts |-> <<>>]>>
    ELSE <<>>

EmployeeIdPrefix == <<"E", "m", "p", "l", "o", "y", "e", "e", " ", "I", "D", ":">>
TimestampPrefix == <<"T", "i", "m", "e", "s", "t", "a", "m", "p", ":">>
PromptPrefix == <<"P", "r", "o", "m", "p", "t", ":">>

\* str.startswith
StartsWith(s, prefix) == Len(s) >= Len(prefix) /\ SubSeq(s, 1, Len(prefix)) = prefix

\* line.split(":", 1)[1].strip() of a line that contains a colon
AfterColon(line) ==
    LET i == CHOOSE k \in 1..Len(line) : line[k] = ":" /\ \A j \in 1..(k - 1) : line[j] # ":"
    IN Strip(SubSeq(line, i + 1, Len(line)))

\* lines 158-165: one line of the file; st.by_id is the dict (ids in insertion
\* order, items[i] the list of ids[i]); raised is the IndexError of line 165
PromptLine(st, raw) ==
    LET line == Strip(raw) IN
    IF st.raised THEN st
    ELSE IF StartsWith(line, EmployeeIdPrefix)
    THEN LET id == AfterColon(line)
         IN IF KeyIndex(st.ids, id) # 0 THEN [st EXCEPT !.current_id = id]
            ELSE [st EXCEPT !.current_id = id, !.ids = Append(@, id), !.items = Append(@, <<>>)]
    ELSE IF StartsWith(line, TimestampPrefix) /\ Truthy(st.current_id)
    THEN [st EXCEPT !.items[KeyIndex(st.ids, st.current_id)] =
                        Append(@, [timestamp |-> AfterColon(line), prompt |-> Empty])]
    ELSE IF StartsWith(line, PromptPrefix) /\ Truthy(st.current_id)
    THEN LET k == KeyIndex(st.ids, st.current_id)
         IN IF st.items[k] = <<>> THEN [st EXCEPT !.raised = TRUE]
            ELSE [st EXCEPT !.items[k][Len(st.items[k])].prompt = AfterColon(line)]
    ELSE st

RECURSIVE PromptLines(_, _)
PromptLines(st, lines) ==
    IF lines = <<>> THEN st ELSE PromptLines(PromptLine(st, Head(lines)), Tail(lines))

\* lines 166-168: the entries of one id, tagged with it
TagPrompts(id, items) ==
    [i \in 1..Len(items) |->
        [employee_id |-> id, timestamp |-> items[i].timestamp, prompt |-> items[i].prompt]]

RECURSIVE FlattenPrompts(_, _)
FlattenPrompts(ids, items) ==
    IF ids = <<>> THEN <<>>
    ELSE TagPrompts(Head(ids), Head(items)) \o FlattenPrompts(Tail(ids), Tail(items))

\* lines 153-169: [raised, value]
extract_flagged_prompts(file) ==
    LET lines == OrEmptyList(extract_file(file, "txt"))
        st == PromptLines([ids |-> <<>>, items |-> <<>>, current_id |-> None, raised |-> FALSE],
                          lines)
    IN [raised |-> st.raised,
        value |-> IF st.raised THEN <<>> ELSE FlattenPrompts(st.ids, st.items)]

(***************************************************************************)
(* The entities (lines 30-66) and the loaders                              *)
(***************************************************************************)
CustomerAttrs ==
    {"id", "first_name", "last_name", "customer_type", "email", "subscription_type",
     "company_name", "phone_number", "dob", "sex", "payment_method", "street", "city",
     "postcode", "card_number", "card_cvv", "name"}

\* a Customer row before any attribute is given: '' for Optional(str), None
\* for the nullable ones; a row holds the values it was given
CustomerRowDefaults ==
    [k \in CustomerAttrs \ {"id"} |-> IF k \in {"city", "card_number", "card_cvv"} THEN None ELSE Empty]

EmployeeAttrs ==
    {"employee_id", "first_name", "last_name", "role", "department", "age", "retired",
     "dependants", "marital_status", "vehicle_registration", "vehicle_make", "vehicle_model",
     "vehicle_year", "salary", "pension", "commute_distance", "flagged_prompts"}

FloatAttrs == {"salary", "pension", "commute_distance"}

\* Customer(**c) and existing.set(**c) raise TypeError on a keyword that is
\* no attribute of the entity
CustomerKwargsOk(c) == DOMAIN c \subseteq CustomerAttrs

\* Optional(float) takes a number; a text that is no number raises
FloatOk(v) == "num" \in DOMAIN v \/ IsIntText(v.text)

\* Employee(**e) and setattr(existing, key, val) raise on an unknown keyword
\* or a value the attribute's type rejects
EmployeeKwargsOk(e) ==
    /\ DOMAIN e \subseteq EmployeeAttrs
    /\ \A k \in DOMAIN e \cap FloatAttrs : FloatOk(e[k])

\* rows whose attribute attr equals v
RowsWith(rows, attr, v) == {i \in 1..Len(rows) : rows[i][attr] = v}

\* mutant: no lookup, every record is inserted
CustomerMatchesNever(rows, c) == {}

\* mutant: the lookup is made for an empty email too
CustomerMatchesAnyEmail(rows, c) == RowsWith(rows, "email", Get(c, "email", None))

\* line 270: the rows Customer.get(email=...) is asked for; none when the
\* record has no email
CustomerMatches(rows, c) ==
    IF Truthy(Get(c, "email", None)) THEN RowsWith(rows, "email", c["email"]) ELSE {}

\* line 269: the guard that drops a record
CustomerNotLoaded(c) == ~Truthy(Get(c, "name", None))

\* lines 269-276: one record of the batch inside the db_session; st.rows is
\* the session's view of the table
LoadCustomer(st, c) ==
    IF st.raised \/ CustomerNotLoaded(c) THEN st
    ELSE LET hits == CustomerMatches(st.rows, c)
         IN IF Cardinality(hits) > 1 \/ ~CustomerKwargsOk(c)
            THEN [st EXCEPT !.raised = TRUE]
            ELSE IF hits # {}
            THEN LET i == CHOOSE h \in hits : TRUE
                 IN [st EXCEPT !.rows[i] = Update(@, c), !.updated = @ + 1]
            ELSE [st EXCEPT !.rows = Append(@, Update(Update(CustomerRowDefaults, c),
                                                       [id |-> Len(st.rows) + 1])),
                            !.loaded = @ + 1]

RECURSIVE LoadCustomerBatch(_, _)
LoadCustomerBatch(st, batch) ==
    IF batch = <<>> THEN st ELSE LoadCustomerBatch(LoadCustomer(st, Head(batch)), Tail(batch))

\* lines 266-278, up to commit(): the session after the loop
load_customers(batch, rows) ==
    LoadCustomerBatch([rows |-> rows, loaded |-> 0, updated |-> 0, raised |-> FALSE], batch)

\* line 284: the guard that drops a record
EmployeeNotLoaded(e) == ~Truthy(Get(e, "employee_id", None))

\* mutant: no lookup, every record is inserted
LoadEmployeeInsertOnly(st, e) ==
    IF st.raised \/ EmployeeNotLoaded(e) THEN st
    ELSE IF ~EmployeeKwargsOk(e) THEN [st EXCEPT !.raised = TRUE]
    ELSE [st EXCEPT !.rows = Append(@, e), !.loaded = @ + 1]

\* lines 284-292: one record of the batch inside the db_session
LoadEmployee(st, e) ==
    IF st.raised \/ EmployeeNotLoaded(e) THEN st
    ELSE LET hits == RowsWith(st.rows, "employee_id", e["employee_id"])
         IN IF ~EmployeeKwargsOk(e)
            THEN [st EXCEPT !.raised = TRUE]
            ELSE IF hits # {}
            THEN LET i == CHOOSE h \in hits : TRUE
                 IN [st EXCEPT !.rows[i] = Update(@, e), !.updated = @ + 1]
            ELSE [st EXCEPT !.rows = Append(@, e), !.loaded = @ + 1]

RECURSIVE LoadEmployeeBatch(_, _)
LoadEmployeeBatch(st, batch) ==
    IF batch = <<>> THEN st ELSE LoadEmployeeBatch(LoadEmployee(st, Head(batch)), Tail(batch))

\* lines 281-294, up to commit(): the session after the loop
load_employees(batch, rows) ==
    LoadEmployeeBatch([rows |-> rows, loaded |-> 0, updated |-> 0, raised |-> FALSE], batch)

\* mutant: every change is committed as it is made
PersistedPartial(session, before) == session.rows

\* @db_session (lines 265, 280) with commit() (lines 277, 293): the table
\* after the call is the session's view when the body returned, and the
\* table as it was (rollback) when the body raised
Persisted(session, before) == IF session.raised THEN before ELSE session.rows

\* lines 278 and 294
LoadLog(session, what) ==
    IF session.raised THEN <<>>
    ELSE <<[level |-> "INFO", text |-> what, path |-> "",
            counts |-> <<session.loaded, session.updated>>]>>

Info(text) == [level |-> "INFO", text |-> text, path |-> "", counts |-> <<>>]

\* line 216: one print per row without an id
RECURSIVE SkippedEmployeesLog(_)
SkippedEmployeesLog(employee_csv) ==
    IF employee_csv = <<>> THEN <<>>
    ELSE (IF EmployeeSkipped(Head(employee_csv))
          THEN <<[level |-> "PRINT", text |-> "Skipping employee with missing ID",
                  path |-> "", counts |-> <<>>]>>
          ELSE <<>>) \o SkippedEmployeesLog(Tail(employee_csv))

(***************************************************************************)
(* The input files the model draws from                                    *)
(***************************************************************************)
SeqsUpTo(set, n) == UNION {[1..k -> set] : k \in 0..n}

\* rows of customers.csv: every row has the columns of the header
CsvCustomerRows ==
    {[first_name |-> n[1], last_name |-> n[2], company_name |-> co, email |-> em] :
        n \in {<<Empty, Empty>>, <<S("a"), S("b")>>},
        co \in {Empty, S(" "), S("c")},
        em \in {Empty, S("x")}}

\* records of customers_subscriptions.json: any keys
JsonCustomerRecords ==
    {[first_name |-> S("a"), last_name |-> S("b"), email |-> S("y"), subscription_type |-> S("s")],
     [first_name |-> S("a"), last_name |-> S("b")],
     [first_name |-> S("a"), last_name |-> S("b"), email |-> None],
     [company_name |-> S("c"), email |-> S("x")],
     [company_name |-> <<" ", "c">>, subscription_type |-> S("s")],
     [company_name |-> S("c"), notes |-> S("n")],
     [company_name |-> S("c"), phone_number |-> S("5")],
     [email |-> S("x")],
     [company_name |-> S(" ")]}

Element(tag, attrs, children) == [tag |-> tag, attrs |-> attrs, children |-> children]

BillingFiles ==
    {Missing,
     File(<<Element("Customer", EmptyDict,
                    [FirstName |-> S("a"), LastName |-> S("b"), PhoneNo |-> S("7"),
                     PaymentMethod |-> S("v")])>>),
     File(<<Element("Customer", EmptyDict, [CompanyName |-> S("c"), PaymentMethod |-> S("v")]),
            Element("Note", EmptyDict, EmptyDict),
            Element("Customer", EmptyDict,
                    [CompanyName |-> S("c"), PhoneNo |-> S("8"), PaymentMethod |-> S("m")])>>)}

\* rows of employees.csv
CsvEmployeeRows ==
    {[employee_id |-> id, first_name |-> n[1], last_name |-> n[2], role |-> S("r"),
      age |-> n[3], retired |-> n[4]] :
        id \in {Empty, S("1"), S("2")},
        n \in {<<S("a"), S("b"), <<"4", "1">>, <<"T", "r", "u", "e">>>>,
               <<S("c"), S("d"), S("x"), <<"f", "a", "l", "s", "e">>>>}}

VehicleFiles ==
    {Missing,
     File(<<Element("Employee", [FirstName |-> S("a"), SecondName |-> S("b")],
                    [VehicleInfo |-> [RegistrationNumber |-> S("R"), Make |-> S("M"),
                                      Year |-> <<"2", "0">>]])>>),
     File(<<Element("Employee", [FirstName |-> S("a"), SecondName |-> S("b")],
                    [VehicleInfo |-> [RegistrationNumber |-> S("R"), Make |-> S("M"),
                                      Model |-> S("m"), Year |-> <<"2", "0">>]]),
            Element("Employee", [FirstName |-> S("z")], EmptyDict),
            Element("Employee", [FirstName |-> S("a"), SecondName |-> S("b")],
                    [VehicleInfo |-> [RegistrationNumber |-> S("Q"), Make |-> S("N"),
                                      Model |-> S("n"), Year |-> S("y")]])>>)}

SalaryFiles ==
    {Missing,
     File(<<[employee_id |-> Num(1), salary |-> Num(5), pension |-> Num(1),
             commute_distance |-> Num(2)]>>),
     File(<<[employee_id |-> Text(S("1")), salary |-> Num(5), pension |-> Num(1),
             commute_distance |-> Num(2)],
            [employee_id |-> Num(1), salary |-> Num(6)],
            [employee_id |-> Num(3), salary |-> Num(9)]>>),
     File(<<[employee_id |-> Text(S("2")), salary |-> Text(S("n")), pension |-> Num(1),
             commute_distance |-> Num(2)]>>)}

IdLine(id) == EmployeeIdPrefix \o S(" ") \o id
TimestampLine(t) == TimestampPrefix \o S(" ") \o t
PromptTextLine(t) == PromptPrefix \o S(" ") \o t

PromptFiles ==
    {Missing,
     File(<<IdLine(S("1")), TimestampLine(<<"9", ":", "0">>), PromptTextLine(S("p")),
            IdLine(S("7")), TimestampLine(S("8")), S("-"),
            IdLine(S("1")), TimestampLine(S("7"))>>),
     File(<<IdLine(S("1")), PromptTextLine(S("p"))>>)}

FileKeys ==
    {"customers_csv", "customers_json", "customers_billing", "employee_csv",
     "employees_vehicles", "employees_salaries", "flagged_prompts"}

Disk(ccsv, cjson, cbill, ecsv, eveh, esal, eflags) ==
    [customers_csv |-> ccsv, customers_json |-> cjson, customers_billing |-> cbill,
     employee_csv |-> ecsv, employees_vehicles |-> eveh, employees_salaries |-> esal,
     flagged_prompts |-> eflags]

\* the customer sources vary (MaxRecs records in all), the employee sources
\* are absent
CustomerDisks ==
    UNION {{Disk(File(cs), File(js), b, Missing, Missing, Missing, Missing) :
                cs \in [1..k -> CsvCustomerRows],
                js \in SeqsUpTo(JsonCustomerRecords, MaxRecs - k),
                b \in BillingFiles} : k \in 0..MaxRecs}

\* the employee sources vary, the customer sources are absent
EmployeeDisks ==
    {Disk(Missing, Missing, Missing, File(es), v, sa, fl) :
        es \in SeqsUpTo(CsvEmployeeRows, MaxRecs),
        v \in VehicleFiles, sa \in SalaryFiles, fl \in PromptFiles}

SampleFile(key) ==
    CASE key = "customers_csv" ->
            File(<<[first_name |-> S("a"), last_name |-> S("b"), company_name |-> Empty,
                    email |-> S("x")]>>)
      [] key = "customers_json" -> File(<<[company_name |-> S("c"), subscription_type |-> S("s")]>>)
      [] key = "customers_billing" ->
            File(<<Element("Customer", EmptyDict, [CompanyName |-> S("c"), PaymentMethod |-> S("v")])>>)
      [] key = "employee_csv" ->
            File(<<[employee_id |-> S("1"), first_name |-> S("a"), last_name |-> S("b"),
                    role |-> S("r"), age |-> <<"4", "1">>, retired |-> <<"T", "r", "u", "e">>]>>)
      [] key = "employees_vehicles" ->
            File(<<Element("Employee", [FirstName |-> S("a"), SecondName |-> S("b")],
                           [VehicleInfo |-> [RegistrationNumber |-> S("R"), Make |-> S("M"),
                                             Year |-> <<"2", "0">>]])>>)
      [] key = "employees_salaries" ->
            File(<<[employee_id |-> Num(1), salary |-> Num(5), pension |-> Num(1),
                    commute_distance |-> Num(2)]>>)
      [] key = "flagged_prompts" ->
            File(<<IdLine(S("1")), TimestampLine(S("8")), PromptTextLine(S("p"))>>)

\* every file is either absent or a sample
MissingDisks ==
    {[k \in FileKeys |-> IF k \in present THEN SampleFile(k) ELSE Missing] :
        present \in SUBSET FileKeys}

Disks == CustomerDisks \cup EmployeeDisks \cup MissingDisks

(***************************************************************************)
(* e-sport-analytical-app/backend/app/routers/live_data.py: the live-data  *)
(* endpoints and their cache.  Time is counted in minutes; the several     *)
(* datetime.now() calls of one request read the same minute.               *)
(***************************************************************************)
MatchesTTL == 5         \* timedelta(minutes=5), line 90
PlayersTTL == 10        \* timedelta(minutes=10), line 146
TournamentsTTL == 15    \* timedelta(minutes=15), line 200

All == <<"a", "l", "l">>
Csgo == <<"c", "s", "g", "o">>
Upcoming == <<"u", "p", "c", "o", "m", "i", "n", "g">>

\* _cache['last_update'] = None
NoTime == <<>>

\* lines 27-32
EmptyCache == [matches |-> EmptyDict, players |-> EmptyDict, tournaments |-> EmptyDict]

NoResponse == [request |-> [endpoint |-> "none"], data |-> <<>>, cached |-> FALSE]

\* the module has just been imported and no request has been served
LiveAtStartup ==
    /\ now = 0
    /\ cache = EmptyCache
    /\ last_update = NoTime
    /\ response = NoResponse
    /\ requests = 0

\* game or 'all', player_id or 'all'
OrAll(v) == IF Truthy(v) THEN v ELSE All

\* game or "csgo"
OrCsgo(game) == IF Truthy(game) THEN game ELSE Csgo

\* line 87: f"matches_{game or 'all'}_{limit}"
MatchesKey(game, limit) == <<"m", "a", "t", "c", "h", "e", "s", "_">> \o OrAll(game) \o S("_") \o Decimal(limit)

\* line 143: f"players_{game or 'all'}_{player_id or 'all'}_{limit}"
PlayersKey(game, player_id, limit) ==
    <<"p", "l", "a", "y", "e", "r", "s", "_">> \o OrAll(game) \o S("_") \o OrAll(player_id) \o S("_") \o Decimal(limit)

\* line 197: f"tournaments_{game or 'all'}_{status}_{limit}"
TournamentsKey(game, status, limit) ==
    <<"t", "o", "u", "r", "n", "a", "m", "e", "n", "t", "s", "_">> \o OrAll(game) \o S("_") \o Format(status)
        \o S("_") \o Decimal(limit)

Min(a, b) == IF a < b THEN a ELSE b

\* lines 98-110: the mock matches generated at minute t (team and tournament
\* names, which repeat i, are left out)
MockMatches(game, limit, t) ==
    [k \in 1..Min(limit, 10) |->
        LET i == k - 1
        IN [id |-> <<"m", "a", "t", "c", "h", "_">> \o Decimal(i),
            game |-> OrCsgo(game),
            status |-> IF i < 3 THEN "live" ELSE "upcoming",
            score |-> [team1 |-> IF i < 3 THEN 16 ELSE 0, team2 |-> IF i < 3 THEN 14 ELSE 0],
            start_time |-> t + 60 * i]]

\* lines 154-171: the mock players generated at minute t (name, team and the
\* two rounded ratios, which depend on i alone, are left out)
MockPlayers(game, limit, t) ==
    LET players == [k \in 1..Min(limit, 10) |->
                       LET i == k - 1
                       IN [id |-> <<"p", "l", "a", "y", "e", "r", "_">> \o Decimal(i),
                           game |-> OrCsgo(game),
                           kills |-> 25 + i, deaths |-> 15 + i, assists |-> 10 + i,
                           last_match |-> t - 60 * i]]
    IN SubSeq(players, 1, Min(limit, Len(players)))

\* lines 206-222: the mock tournaments generated at minute t
MockTournaments(game, status, limit, t) ==
    LET tournaments == [k \in 1..Min(limit, 5) |->
                           LET i == k - 1
                           IN [id |-> <<"t", "o", "u", "r", "n", "a", "m", "e", "n", "t", "_">> \o Decimal(i),
                               game |-> OrCsgo(game),
                               status |-> status,
                               start_date |-> t + 1440 * i,
                               end_date |-> t + 1440 * (i + 7),
                               teams |-> (i + 1) * 8]]
    IN SubSeq(tournaments, 1, Min(limit, Len(tournaments)))

\* the cached entry is returned although force_refresh is set
CacheHitIgnoringForce(entries, cache_key, ttl, force_refresh, t) ==
    cache_key \in DOMAIN entries /\ entries[cache_key].timestamp > t - ttl

\* lines 88-90, 144-146, 198-200: the entry of the key is used
CacheHit(entries, cache_key, ttl, force_refresh, t) ==
    /\ ~force_refresh
    /\ cache_key \in DOMAIN entries
    /\ entries[cache_key].timestamp > t - ttl

\* lines 113-116, 174-177, 225-228: entries[cache_key] = {'data': ..., 'timestamp': ...}
Store(entries, cache_key, data, t) ==
    [k \in DOMAIN entries \cup {cache_key} |->
        IF k = cache_key THEN [data |-> data, timestamp |-> t] ELSE entries[k]]

(***************************************************************************)
(* Tesla_Stock_Analysis/automation.py: LiveDashboard, RealTimeDataFeed and *)
(* AutomatedAnalysis.run_hourly_check; utils.py: AlertSystem.              *)
(***************************************************************************)
MaxPoints == 100        \* max_points, automation.py line 347

\* automation.py lines 331-336
EmptyDashboard == [prices |-> <<>>, volumes |-> <<>>, timestamps |-> <<>>, alerts |-> <<>>]

\* no RealTimeDataFeed yet (line 330); once created, lines 22-27
\* thread: the thread of generate_data; bound: the local names of
\* generate_data that hold a value; main: the caller's place in
\* start_live_monitoring
NoFeed ==
    [created |-> FALSE, is_connected |-> FALSE, latest_data |-> EmptyDict,
     thread |-> "none", bound |-> {}, main |-> "idle"]

\* None where a DataFrame is expected
NoData == [none |-> TRUE]

\* run_hourly_check has not been called.  clock: what datetime.now() gives;
\* fetch: what ticker.history(period="2d") gives; sent: the arguments of the
\* calls of send_email_alert; delivered: the mails handed to the SMTP server
NotCalled ==
    [pc |-> "idle", clock |-> [weekday |-> 0, minute |-> 0], fetch |-> NoData,
     is_open |-> FALSE, alerts |-> <<>>, sent |-> <<>>, delivered |-> 0]

TeslaAtStartup ==
    /\ dashboard_data = EmptyDashboard
    /\ feed = NoFeed
    /\ arrivals = 0
    /\ partials = 0
    /\ hourly = NotCalled

\* s[-n:]
LastN(s, n) == IF Len(s) > n THEN SubSeq(s, Len(s) - n + 1, Len(s)) ELSE s

\* automation.py lines 346-350
KeepRecent(dd) ==
    [dd EXCEPT !.prices = LastN(@, MaxPoints),
               !.volumes = LastN(@, MaxPoints),
               !.timestamps = LastN(@, MaxPoints)]

\* automation.py lines 338-356: the three appends in turn; a KeyError of
\* data[...] leaves the try block, so what was appended before it stays and
\* lines 345-349 are not reached
update_dashboard(dd, data) ==
    IF "price" \notin DOMAIN data THEN dd
    ELSE LET d1 == [dd EXCEPT !.prices = Append(@, data["price"])]
         IN IF "volume" \notin DOMAIN data THEN d1
            ELSE LET d2 == [d1 EXCEPT !.volumes = Append(@, data["volume"])]
                 IN IF "timestamp" \notin DOMAIN data THEN d2
                    ELSE KeepRecent([d2 EXCEPT !.timestamps = Append(@, data["timestamp"])])

(***************************************************************************)
(* run_etl (lines 297-313), one action per statement                       *)
(***************************************************************************)
\* the process ended with a traceback; the statement that raised is named
Crashed ==
    {"crashed in extract_flagged_prompts", "crashed in load_customers",
     "crashed in load_employees"}

Init ==
    /\ pc = "bind"
    /\ run = 1
    /\ files \in Disks
    /\ c_csv = <<>> /\ c_json = <<>> /\ c_bill = <<>>
    /\ e_csv = <<>> /\ e_veh = <<>> /\ e_sal = <<>> /\ e_flags = <<>>
    /\ customers = <<>> /\ employees = <<>>
    /\ CustomerRows = <<>> /\ EmployeeRows = <<>>
    /\ log = <<>>
    /\ rowCounts = <<0, 0>>
    /\ budget = 0
    /\ LiveAtStartup
    /\ TeslaAtStartup

\* lines 70-80: what can raise inside the try block
BindFailures == {"db.bind", "db.generate_mapping"}

\* lines 82-83, the except clause: logging.error and exit(1)
BindError(e) == [level |-> "ERROR", text |-> "DB binding error", path |-> e, counts |-> <<>>]

\* the error is logged and the script goes on
BindDatabaseContinues ==
    /\ pc = "bind"
    /\ \/ log' = Append(log, Info("DB binding successful."))
       \/ \E e \in BindFailures : log' = Append(log, BindError(e))
    /\ pc' = "start"
    /\ UNCHANGED <<run, files, c_csv, c_json, c_bill, e_csv, e_veh, e_sal, e_flags,
                   customers, employees, CustomerRows, EmployeeRows, rowCounts, budget>>
    /\ UNCHANGED liveVars
    /\ UNCHANGED teslaVars

\* lines 68-83, run when the script is loaded: the binding succeeds, or an
\* exception of db.bind / db.generate_mapping is logged and the process
\* ends with exit status 1
BindDatabase ==
    /\ pc = "bind"
    /\ \/ /\ log' = Append(log, Info("DB binding successful."))
          /\ pc' = "start"
       \/ \E e \in BindFailures :
             /\ log' = Append(log, BindError(e))
             /\ pc' = "exit 1"
    /\ UNCHANGED <<run, files, c_csv, c_json, c_bill, e_csv, e_veh, e_sal, e_flags,
                   customers, employees, CustomerRows, EmployeeRows, rowCounts, budget>>
    /\ UNCHANGED liveVars
    /\ UNCHANGED teslaVars

\* line 298
StartEtl ==
    /\ pc = "start"
    /\ log' = Append(log, Info("Starting ETL process"))
    /\ pc' = "extract_customers_csv"
    /\ UNCHANGED <<run, files, c_csv, c_json, c_bill, e_csv, e_veh, e_sal, e_flags,
                   customers, employees, CustomerRows, EmployeeRows, rowCounts, budget>>
    /\ UNCHANGED liveVars
    /\ UNCHANGED teslaVars

\* line 299
ExtractCustomersCsv ==
    /\ pc = "extract_customers_csv"
    /\ c_csv' = extract_customers_csv(files["customers_csv"])
    /\ log' = log \o ExtractLog(files["customers_csv"], "customers_csv")
    /\ pc' = "extract_customers_json"
    /\ UNCHANGED <<run, files, c_json, c_bill, e_csv, e_veh, e_sal, e_flags,
                   customers, employees, CustomerRows, EmployeeRows, rowCounts, budget>>
    /\ UNCHANGED liveVars
    /\ UNCHANGED teslaVars

\* line 300
ExtractCustomersJson ==
    /\ pc = "extract_customers_json"
    /\ c_json' = extract_customers_json(files["customers_json"])
    /\ log' = log \o ExtractLog(files["customers_json"], "customers_json")
    /\ pc' = "extract_customers_billing"
    /\ UNCHANGED <<run, files, c_csv, c_bill, e_csv, e_veh, e_sal, e_flags,
                   customers, employees, CustomerRows, EmployeeRows, rowCounts, budget>>
    /\ UNCHANGED liveVars
    /\ UNCHANGED teslaVars

\* line 301
ExtractCustomersBilling ==
    /\ pc = "extract_customers_billing"
    /\ c_bill' = extract_customers_billing(files["customers_billing"])
    /\ log' = log \o ExtractLog(files["customers_billing"], "customers_billing")
    /\ pc' = "extract_employee_csv"
    /\ UNCHANGED <<run, files, c_csv, c_json, e_csv, e_veh, e_sal, e_flags,
                   customers, employees, CustomerRows, EmployeeRows, rowCounts, budget>>
    /\ UNCHANGED liveVars
    /\ UNCHANGED teslaVars

\* line 302
ExtractEmployeeCsv ==
    /\ pc = "extract_employee_csv"
    /\ e_csv' = OrEmptyList(extract_file(files["employee_csv"], "csv"))
    /\ log' = log \o ExtractLog(files["employee_csv"], "employee_csv")
    /\ pc' = "extract_vehicles"
    /\ UNCHANGED <<run, files, c_csv, c_json, c_bill, e_veh, e_sal, e_flags,
                   customers, employees, CustomerRows, EmployeeRows, rowCounts, budget>>
    /\ UNCHANGED liveVars
    /\ UNCHANGED teslaVars

\* line 303
ExtractVehicles ==
    /\ pc = "extract_vehicles"
    /\ e_veh' = extract_vehicles(files["employees_vehicles"])
    /\ log' = log \o ExtractLog(files["employees_vehicles"], "employees_vehicles")
                  \o VehiclesLog(files["employees_vehicles"])
    /\ pc' = "extract_salaries"
    /\ UNCHANGED <<run, files, c_csv, c_json, c_bill, e_csv, e_sal, e_flags,
                   customers, employees, CustomerRows, EmployeeRows, rowCounts, budget>>
    /\ UNCHANGED liveVars
    /\ UNCHANGED teslaVars

\* line 304
ExtractSalaries ==
    /\ pc = "extract_salaries"
    /\ e_sal' = extract_file_json(files["employees_salaries"])
    /\ log' = log \o ExtractLog(files["employees_salaries"], "employees_salaries")
    /\ pc' = "extract_flagged_prompts"
    /\ UNCHANGED <<run, files, c_csv, c_json, c_bill, e_csv, e_veh, e_flags,
                   customers, employees, CustomerRows, EmployeeRows, rowCounts, budget>>
    /\ UNCHANGED liveVars
    /\ UNCHANGED teslaVars

\* line 305; the IndexError of line 165 leaves run_etl
ExtractFlaggedPrompts ==
    /\ pc = "extract_flagged_prompts"
    /\ LET r == extract_flagged_prompts(files["flagged_prompts"])
       IN /\ e_flags' = r.value
          /\ pc' = IF r.raised THEN "crashed in extract_flagged_prompts" ELSE "transform_customers"
    /\ log' = log \o ExtractLog(files["flagged_prompts"], "flagged_prompts")
    /\ UNCHANGED <<run, files, c_csv, c_json, c_bill, e_csv, e_veh, e_sal,
                   customers, employees, CustomerRows, EmployeeRows, rowCounts, budget>>
    /\ UNCHANGED liveVars
    /\ UNCHANGED teslaVars

\* line 307, the inner call
TransformCustomers ==
    /\ pc = "transform_customers"
    /\ customers' = transform_customers(c_csv, c_json)
    /\ pc' = "transform_customers_with_billing"
    /\ UNCHANGED <<run, files, c_csv, c_json, c_bill, e_csv, e_veh, e_sal, e_flags,
                   employees, CustomerRows, EmployeeRows, log, rowCounts, budget>>
    /\ UNCHANGED liveVars
    /\ UNCHANGED teslaVars

\* line 307, the outer call
TransformCustomersWithBilling ==
    /\ pc = "transform_customers_with_billing"
    /\ customers' = transform_customers_with_billing(customers, c_bill)
    /\ pc' = "transform_employees"
    /\ UNCHANGED <<run, files, c_csv, c_json, c_bill, e_csv, e_veh, e_sal, e_flags,
                   employees, CustomerRows, EmployeeRows, log, rowCounts, budget>>
    /\ UNCHANGED liveVars
    /\ UNCHANGED teslaVars

\* line 308, the inner call
TransformEmployees ==
    /\ pc = "transform_employees"
    /\ employees' = transform_employees(e_csv, e_veh, e_sal)
    /\ log' = log \o SkippedEmployeesLog(e_csv)
    /\ pc' = "merge_flagged_prompts"
    /\ UNCHANGED <<run, files, c_csv, c_json, c_bill, e_csv, e_veh, e_sal, e_flags,
                   customers, CustomerRows, EmployeeRows, rowCounts, budget>>
    /\ UNCHANGED liveVars
    /\ UNCHANGED teslaVars

\* the employees are loaded first and the customers never
MergeFlaggedPromptsThenEmployees ==
    /\ pc = "merge_flagged_prompts"
    /\ employees' = merge_flagged_prompts(employees, e_flags)
    /\ log' = Append(log, Info("Loading data to DB..."))
    /\ pc' = "load_employees"
    /\ UNCHANGED <<run, files, c_csv, c_json, c_bill, e_csv, e_veh, e_sal, e_flags,
                   customers, CustomerRows, EmployeeRows, rowCounts, budget>>
    /\ UNCHANGED liveVars
    /\ UNCHANGED teslaVars

\* line 308, the outer call, and line 310
MergeFlaggedPrompts ==
    /\ pc = "merge_flagged_prompts"
    /\ employees' = merge_flagged_prompts(employees, e_flags)
    /\ log' = Append(log, Info("Loading data to DB..."))
    /\ pc' = "load_customers"
    /\ UNCHANGED <<run, files, c_csv, c_json, c_bill, e_csv, e_veh, e_sal, e_flags,
                   customers, CustomerRows, EmployeeRows, rowCounts, budget>>
    /\ UNCHANGED liveVars
    /\ UNCHANGED teslaVars

\* line 311: the whole call; an exception leaves run_etl
LoadCustomers ==
    /\ pc = "load_customers"
    /\ LET session == load_customers(customers, CustomerRows)
       IN /\ CustomerRows' = Persisted(session, CustomerRows)
          /\ log' = log \o LoadLog(session, "Customers added, updated")
          /\ pc' = IF session.raised THEN "crashed in load_customers" ELSE "load_employees"
    /\ UNCHANGED <<run, files, c_csv, c_json, c_bill, e_csv, e_veh, e_sal, e_flags,
                   customers, employees, EmployeeRows, rowCounts, budget>>
    /\ UNCHANGED liveVars
    /\ UNCHANGED teslaVars

\* line 312: the whole call, and line 313
LoadEmployees ==
    /\ pc = "load_employees"
    /\ LET session == load_employees(employees, EmployeeRows)
       IN /\ EmployeeRows' = Persisted(session, EmployeeRows)
          /\ log' = log \o LoadLog(session, "Employees added, updated")
                        \o (IF session.raised THEN <<>>
                            ELSE <<Info("ETL process completed successfully.")>>)
          /\ pc' = IF session.raised THEN "crashed in load_employees" ELSE "done"
    /\ UNCHANGED <<run, files, c_csv, c_json, c_bill, e_csv, e_veh, e_sal, e_flags,
                   customers, employees, CustomerRows, rowCounts, budget>>
    /\ UNCHANGED liveVars
    /\ UNCHANGED teslaVars

\* the script is started once more, after a run of run_etl, on the same
\* files and with the database that run left
Rerun ==
    /\ pc \in {"done"} \cup Crashed
    /\ run < MaxRuns
    /\ run' = run + 1
    /\ pc' = "bind"
    /\ c_csv' = <<>> /\ c_json' = <<>> /\ c_bill' = <<>>
    /\ e_csv' = <<>> /\ e_veh' = <<>> /\ e_sal' = <<>> /\ e_flags' = <<>>
    /\ customers' = <<>> /\ employees' = <<>>
    /\ log' = <<>>
    /\ rowCounts' = <<Len(CustomerRows), Len(EmployeeRows)>>
    /\ UNCHANGED <<files, CustomerRows, EmployeeRows, budget>>
    /\ UNCHANGED liveVars
    /\ UNCHANGED teslaVars

Next ==
    \/ BindDatabase
    \/ StartEtl
    \/ ExtractCustomersCsv \/ ExtractCustomersJson \/ ExtractCustomersBilling
    \/ ExtractEmployeeCsv \/ ExtractVehicles \/ ExtractSalaries \/ ExtractFlaggedPrompts
    \/ TransformCustomers \/ TransformCustomersWithBilling
    \/ TransformEmployees \/ MergeFlaggedPrompts
    \/ LoadCustomers \/ LoadEmployees
    \/ Rerun

Spec == Init /\ [][Next]_vars

(***************************************************************************)
(* The loaders on their own: a driver hands batches to load_customers and  *)
(* load_employees, as lines 311-312 do, against the database the earlier   *)
(* batches left.                                                           *)
(***************************************************************************)
CustomerRecord(name, email, phone) == [name |-> name, email |-> email, phone_number |-> phone]

LoaderCustomers ==
    {CustomerRecord(S("n"), S("x"), S("1")),
     CustomerRecord(S("m"), S("x"), S("2")),
     CustomerRecord(S("n"), S("y"), S("1")),
     CustomerRecord(S("n"), Empty, S("1")),
     CustomerRecord(S("n"), None, S("2")),
     CustomerRecord(Empty, S("x"), S("3")),
     [name |-> S("n"), phone_number |-> S("2")],
     [name |-> S("m"), email |-> S("y"), notes |-> S("t")]}

EmployeeRecord(id, role, salary) ==
    [employee_id |-> id, first_name |-> S("a"), last_name |-> S("b"), role |-> role,
     department |-> Unknown, age |-> 0, retired |-> FALSE, dependants |-> 0,
     marital_status |-> Empty, vehicle_registration |-> Empty, vehicle_make |-> Empty,
     vehicle_model |-> Empty, vehicle_year |-> 0, salary |-> salary, pension |-> Num(0),
     commute_distance |-> Num(0), flagged_prompts |-> <<"[", "]">>]

LoaderEmployees ==
    {EmployeeRecord(S("1"), S("r"), Num(5)),
     EmployeeRecord(S("1"), S("q"), Num(6)),
     EmployeeRecord(S("2"), S("r"), Num(5)),
     EmployeeRecord(Empty, S("r"), Num(5)),
     EmployeeRecord(S("2"), S("q"), Text(S("n")))}

InitLoad ==
    /\ pc = "idle"
    /\ run = 1
    /\ files = [k \in FileKeys |-> Missing]
    /\ c_csv = <<>> /\ c_json = <<>> /\ c_bill = <<>>
    /\ e_csv = <<>> /\ e_veh = <<>> /\ e_sal = <<>> /\ e_flags = <<>>
    /\ customers = <<>> /\ employees = <<>>
    /\ CustomerRows = <<>> /\ EmployeeRows = <<>>
    /\ log = <<>>
    /\ rowCounts = <<0, 0>>
    /\ budget = MaxLoaded
    /\ LiveAtStartup
    /\ TeslaAtStartup

\* the driver's next pair of calls
Driver ==
    /\ pc \in {"idle", "done"} \cup Crashed
    /\ \E k \in 1..budget :
        \E nc \in 0..k :
            /\ customers' \in [1..nc -> LoaderCustomers]
            /\ employees' \in [1..(k - nc) -> LoaderEmployees]
            /\ budget' = budget - k
    /\ pc' = "load_customers"
    /\ log' = <<>>
    /\ rowCounts' = <<Len(CustomerRows), Len(EmployeeRows)>>
    /\ UNCHANGED <<run, files, c_csv, c_json, c_bill, e_csv, e_veh, e_sal, e_flags,
                   CustomerRows, EmployeeRows>>
    /\ UNCHANGED liveVars
    /\ UNCHANGED teslaVars

NextLoad == Driver \/ LoadCustomers \/ LoadEmployees

SpecLoad == InitLoad /\ [][NextLoad]_vars

(***************************************************************************)
(* The live-data endpoints served by one event loop: the handlers have no  *)
(* await, so each request runs from its first line to its return.          *)
(***************************************************************************)
Games == {None, All, Csgo}
Limits == {1, 11}
PlayerIds == {None}
Statuses == {Upcoming}

Request(endpoint, game, player_id, status, limit, force_refresh) ==
    [endpoint |-> endpoint, game |-> game, player_id |-> player_id, status |-> status,
     limit |-> limit, force_refresh |-> force_refresh]

InitLive ==
    /\ pc = "serving"
    /\ run = 1
    /\ files = [k \in FileKeys |-> Missing]
    /\ c_csv = <<>> /\ c_json = <<>> /\ c_bill = <<>>
    /\ e_csv = <<>> /\ e_veh = <<>> /\ e_sal = <<>> /\ e_flags = <<>>
    /\ customers = <<>> /\ employees = <<>>
    /\ CustomerRows = <<>> /\ EmployeeRows = <<>>
    /\ log = <<>>
    /\ rowCounts = <<0, 0>>
    /\ budget = 0
    /\ LiveAtStartup
    /\ TeslaAtStartup

\* lines 71-123
GetLiveMatches ==
    /\ pc = "serving" /\ requests < MaxRequests
    /\ \E game \in Games, limit \in Limits, force_refresh \in BOOLEAN :
        LET cache_key == MatchesKey(game, limit)
            matches == MockMatches(game, limit, now)
            request == Request("matches", game, None, None, limit, force_refresh)
        IN IF CacheHit(cache.matches, cache_key, MatchesTTL, force_refresh, now)
           THEN /\ response' = [request |-> request, data |-> cache.matches[cache_key].data,
                                cached |-> TRUE]
                /\ UNCHANGED <<cache, last_update>>
           ELSE /\ cache' = [cache EXCEPT !.matches = Store(@, cache_key, matches, now)]
                /\ last_update' = <<now>>
                /\ response' = [request |-> request, data |-> matches, cached |-> FALSE]
    /\ requests' = requests + 1
    /\ UNCHANGED now
    /\ UNCHANGED etlVars
    /\ UNCHANGED teslaVars

\* lines 125-184
GetLivePlayerStats ==
    /\ pc = "serving" /\ requests < MaxRequests
    /\ \E game \in Games, player_id \in PlayerIds, limit \in Limits, force_refresh \in BOOLEAN :
        LET cache_key == PlayersKey(game, player_id, limit)
            players == MockPlayers(game, limit, now)
            request == Request("players", game, player_id, None, limit, force_refresh)
        IN IF CacheHit(cache.players, cache_key, PlayersTTL, force_refresh, now)
           THEN /\ response' = [request |-> request, data |-> cache.players[cache_key].data,
                                cached |-> TRUE]
                /\ UNCHANGED <<cache, last_update>>
           ELSE /\ cache' = [cache EXCEPT !.players = Store(@, cache_key, players, now)]
                /\ last_update' = <<now>>
                /\ response' = [request |-> request, data |-> players, cached |-> FALSE]
    /\ requests' = requests + 1
    /\ UNCHANGED now
    /\ UNCHANGED etlVars
    /\ UNCHANGED teslaVars

\* lines 186-234: no force_refresh parameter, and last_update is not set
GetLiveTournaments ==
    /\ pc = "serving" /\ requests < MaxRequests
    /\ \E game \in Games, status \in Statuses, limit \in Limits :
        LET cache_key == TournamentsKey(game, status, limit)
            tournaments == MockTournaments(game, status, limit, now)
            request == Request("tournaments", game, None, status, limit, FALSE)
        IN IF CacheHit(cache.tournaments, cache_key, TournamentsTTL, FALSE, now)
           THEN /\ response' = [request |-> request,
                                data |-> cache.tournaments[cache_key].data, cached |-> TRUE]
                /\ UNCHANGED cache
           ELSE /\ cache' = [cache EXCEPT !.tournaments = Store(@, cache_key, tournaments, now)]
                /\ response' = [request |-> request, data |-> tournaments, cached |-> FALSE]
    /\ requests' = requests + 1
    /\ UNCHANGED <<now, last_update>>
    /\ UNCHANGED etlVars
    /\ UNCHANGED teslaVars

\* time passes between two requests, the shortest TTL at a time
Tick ==
    /\ pc = "serving" /\ now < MaxTicks * MatchesTTL
    /\ now' = now + MatchesTTL
    /\ UNCHANGED <<cache, last_update, response, requests>>
    /\ UNCHANGED etlVars
    /\ UNCHANGED teslaVars

NextLive == GetLiveMatches \/ GetLivePlayerStats \/ GetLiveTournaments \/ Tick

SpecLive == InitLive /\ [][NextLive]_vars

(***************************************************************************)
(* LiveDashboard.update_dashboard called with data dictionaries            *)
(* (automation.py lines 338-356).  The n-th dictionary received carries n  *)
(* under each key it has, so a list element names the call it came from.   *)
(***************************************************************************)
DataKeys == {"price", "volume", "timestamp"}

\* the dictionaries a caller hands over: complete, or lacking keys
Shapes == {DataKeys, {"price"}, {"price", "volume"}, {"volume", "timestamp"}}

DataPoint(n, keys) == [k \in keys |-> n]

InitDash ==
    /\ pc = "dashboard"
    /\ run = 1
    /\ files = [k \in FileKeys |-> Missing]
    /\ c_csv = <<>> /\ c_json = <<>> /\ c_bill = <<>>
    /\ e_csv = <<>> /\ e_veh = <<>> /\ e_sal = <<>> /\ e_flags = <<>>
    /\ customers = <<>> /\ employees = <<>>
    /\ CustomerRows = <<>> /\ EmployeeRows = <<>>
    /\ log = <<>>
    /\ rowCounts = <<0, 0>>
    /\ budget = 0
    /\ LiveAtStartup
    /\ TeslaAtStartup

\* automation.py lines 338-356
UpdateDashboard ==
    /\ pc = "dashboard" /\ arrivals < MaxUpdates
    /\ \E keys \in Shapes :
        /\ keys = DataKeys \/ partials < MaxPartial
        /\ dashboard_data' = update_dashboard(dashboard_data, DataPoint(arrivals + 1, keys))
        /\ partials' = IF keys = DataKeys THEN partials ELSE partials + 1
    /\ arrivals' = arrivals + 1
    /\ UNCHANGED <<feed, hourly>>
    /\ UNCHANGED etlVars
    /\ UNCHANGED liveVars

NextDash == UpdateDashboard

SpecDash == InitDash /\ [][NextDash]_vars

(***************************************************************************)
(* LiveDashboard.start_live_monitoring and RealTimeDataFeed                *)
(* (automation.py lines 22-114 and 372-384).  The caller and the thread of *)
(* generate_data take their steps in any order.                            *)
(***************************************************************************)
Symbol == <<"T", "S", "L", "A">>

\* the names generate_data assigns (lines 94-95) less those it declares
\* nonlocal or global (none): the local names of generate_data
LocalNames == {"change", "base_price"} \ {}

\* reading a local name that holds no value raises UnboundLocalError
ReadRaises(name, bound) == name \in LocalNames /\ name \notin bound

\* float(v) and int(v) of a JSON value: a text that is no number raises
\* ValueError
Converts(v) == FloatOk(v)
Converted(v) == v.num

\* parsed messages: without 'data', with an empty 'data', with numbers, and
\* with a price that is no number
Messages ==
    <<[status |-> Text(S("k"))],
      [data |-> EmptyDict],
      [data |-> [price |-> Num(1), volume |-> Num(1)]],
      [symbol |-> S("X"), data |-> [price |-> Num(2), volume |-> Num(2), change |-> Num(1)]],
      [data |-> [price |-> Text(S("x")), volume |-> Num(1)]]>>

\* lines 372-379, 74-80 and 85-113: the feed is created with update_dashboard
\* as its callback and the thread of generate_data is started
StartLiveMonitoring ==
    /\ pc = "dashboard" /\ feed.main = "idle"
    /\ feed' = [created |-> TRUE, is_connected |-> FALSE, latest_data |-> EmptyDict,
                thread |-> "started", bound |-> {}, main |-> "after thread.start"]
    /\ UNCHANGED <<dashboard_data, arrivals, partials, hourly>>
    /\ UNCHANGED etlVars
    /\ UNCHANGED liveVars

\* line 114, then the returns to line 381
SetConnected ==
    /\ pc = "dashboard" /\ feed.main = "after thread.start"
    /\ feed' = [feed EXCEPT !.is_connected = TRUE, !.main = "started"]
    /\ UNCHANGED <<dashboard_data, arrivals, partials, hourly>>
    /\ UNCHANGED etlVars
    /\ UNCHANGED liveVars

\* lines 92-109, one pass of the loop of generate_data in its thread: line 94
\* binds change, line 95 reads base_price; an exception ends the thread;
\* otherwise lines 97-107 store the data point and hand it to the callback
GenerateData ==
    /\ pc = "dashboard" /\ feed.thread = "started"
    /\ LET bound == feed.bound \cup {"change"}
       IN IF ReadRaises("base_price", bound)
          THEN /\ feed' = [feed EXCEPT !.thread = "dead", !.bound = bound]
               /\ UNCHANGED <<dashboard_data, arrivals>>
          ELSE /\ arrivals < MaxMessages
               /\ \E price \in 1..2 :
                   LET data == [symbol |-> Symbol, price |-> price, volume |-> price,
                                timestamp |-> arrivals + 1, change |-> 0, change_percent |-> 0]
                   IN /\ feed' = [feed EXCEPT !.latest_data = data,
                                              !.bound = bound \cup {"base_price"}]
                      /\ dashboard_data' = update_dashboard(dashboard_data, data)
               /\ arrivals' = arrivals + 1
    /\ UNCHANGED <<partials, hourly>>
    /\ UNCHANGED etlVars
    /\ UNCHANGED liveVars

\* lines 29-51, the n-th message arriving at time n
OnMessage ==
    /\ pc = "dashboard" /\ feed.created /\ arrivals < MaxMessages
    /\ \E m \in 1..Len(Messages) :
        LET message == Messages[m]
            field(k) == Get(message["data"], k, Num(0))
        IN IF /\ "data" \in DOMAIN message
              /\ \A k \in {"price", "volume", "change", "change_percent"} : Converts(field(k))
           THEN LET data == [symbol |-> Get(message, "symbol", Symbol),
                             price |-> Converted(field("price")),
                             volume |-> Converted(field("volume")),
                             timestamp |-> arrivals + 1,
                             change |-> Converted(field("change")),
                             change_percent |-> Converted(field("change_percent"))]
                IN /\ feed' = [feed EXCEPT !.latest_data = data]
                   /\ dashboard_data' = update_dashboard(dashboard_data, data)
           ELSE UNCHANGED <<feed, dashboard_data>>
    /\ arrivals' = arrivals + 1
    /\ UNCHANGED <<partials, hourly>>
    /\ UNCHANGED etlVars
    /\ UNCHANGED liveVars

NextFeed == StartLiveMonitoring \/ SetConnected \/ GenerateData \/ OnMessage

SpecFeed == InitDash /\ [][NextFeed]_vars

(***************************************************************************)
(* AutomatedAnalysis.run_hourly_check (automation.py lines 199-230) with   *)
(* AlertSystem (utils.py lines 95-196) and get_market_hours (utils.py      *)
(* lines 358-371).  A DataFrame is its set of columns and its rows; prices *)
(* and volumes are whole numbers.                                          *)
(***************************************************************************)
Abs(x) == IF x < 0 THEN 0 - x ELSE x

RECURSIVE SumOf(_, _)
SumOf(rows, column) ==
    IF rows = <<>> THEN 0 ELSE rows[1][column] + SumOf(Tail(rows), column)

\* utils.py lines 358-371: a weekday, from 9:30 to 16:00; minute counts the
\* minutes since midnight
get_market_hours(clock) ==
    [is_open |-> clock.weekday < 5 /\ 9 * 60 + 30 <= clock.minute /\ clock.minute <= 16 * 60]

\* utils.py lines 110-134: (current - previous) / previous beyond 5% is an
\* alert, beyond 10% a 'high' one; a volume above twice the mean of the last
\* 20 rows is a 'medium' one
MovementAlerts(current_data, previous_data) ==
    IF "none" \in DOMAIN previous_data \/ Len(current_data.rows) = 0 THEN <<>>
    ELSE LET current_price == current_data.rows[Len(current_data.rows)]["Close"]
             previous_price == previous_data.rows[Len(previous_data.rows)]["Close"]
             change == Abs(current_price - previous_price)
             base == Abs(previous_price)
             tail == LastN(current_data.rows, 20)
             price == IF 20 * change > base
                      THEN <<[type |-> "price_movement",
                              message |-> [direction |-> IF (current_price - previous_price) * previous_price > 0
                                                         THEN "up" ELSE "down",
                                           change |-> <<change, base>>],
                              severity |-> IF 10 * change > base THEN "high" ELSE "medium"]>>
                      ELSE <<>>
             volume == IF /\ "Volume" \in current_data.columns
                          /\ Len(current_data.rows) > 20
                          /\ Len(tail) * tail[Len(tail)]["Volume"] > 2 * SumOf(tail, "Volume")
                       THEN <<[type |-> "volume_spike",
                               message |-> [current_volume |-> tail[Len(tail)]["Volume"]],
                               severity |-> "medium"]>>
                       ELSE <<>>
         IN price \o volume

\* utils.py lines 136-151
TechnicalAlerts(current_data) ==
    IF "RSI" \in current_data.columns /\ Len(current_data.rows) > 0
    THEN LET current_rsi == current_data.rows[Len(current_data.rows)]["RSI"]
         IN IF current_rsi > 70
            THEN <<[type |-> "technical", message |-> [rsi |-> current_rsi], severity |-> "low"]>>
            ELSE IF current_rsi < 30
                 THEN <<[type |-> "technical", message |-> [rsi |-> current_rsi], severity |-> "low"]>>
                 ELSE <<>>
    ELSE <<>>

\* utils.py lines 103-157; a previous_data without rows raises IndexError
\* at line 112, which line 155 turns into []
check_price_alerts(current_data, previous_data) ==
    IF /\ "none" \notin DOMAIN previous_data
       /\ Len(current_data.rows) > 0
       /\ Len(previous_data.rows) = 0
    THEN <<>>
    ELSE MovementAlerts(current_data, previous_data) \o TechnicalAlerts(current_data)

\* utils.py lines 159-196: TRUE when the mail went out; nothing is sent
\* without a configuration or without alerts
send_email_alert(email_config, alerts, smtp_ok) ==
    IF "none" \in DOMAIN email_config \/ DOMAIN email_config = {} \/ alerts = <<>>
    THEN FALSE
    ELSE smtp_ok

\* automation.py line 123: AlertSystem() is built without an email_config,
\* which utils.py lines 100-101 keep as None
EmailConfig == [none |-> TRUE]

\* what datetime.now() gives: Friday and Saturday, around 9:30 and 16:00
Clocks ==
    {[weekday |-> w, minute |-> m] : w \in {4, 5}, m \in {569, 570, 960, 961}}

\* what ticker.history(period="2d") does: it gives up to two rows of Close
\* and Volume, or it raises (no network)
Histories ==
    {[columns |-> {"Close", "Volume"}, rows |-> rows] :
        rows \in UNION {[1..n -> {[Close |-> c, Volume |-> 1] : c \in {100, 104, 111}}] : n \in 0..2}}
    \cup {[raises |-> TRUE]}

InitHourly ==
    /\ pc = "hourly"
    /\ run = 1
    /\ files = [k \in FileKeys |-> Missing]
    /\ c_csv = <<>> /\ c_json = <<>> /\ c_bill = <<>>
    /\ e_csv = <<>> /\ e_veh = <<>> /\ e_sal = <<>> /\ e_flags = <<>>
    /\ customers = <<>> /\ employees = <<>>
    /\ CustomerRows = <<>> /\ EmployeeRows = <<>>
    /\ log = <<>>
    /\ rowCounts = <<0, 0>>
    /\ budget = 0
    /\ LiveAtStartup
    /\ dashboard_data = EmptyDashboard
    /\ feed = NoFeed
    /\ arrivals = 0
    /\ partials = 0
    /\ \E clock \in Clocks, fetch \in Histories :
        hourly = [NotCalled EXCEPT !.pc = "scheduled", !.clock = clock, !.fetch = fetch]

\* automation.py lines 199-230
RunHourlyCheck ==
    /\ pc = "hourly" /\ hourly.pc = "scheduled"
    /\ LET market_status == get_market_hours(hourly.clock)
           current_data == hourly.fetch
           done == [hourly EXCEPT !.pc = "returned", !.is_open = market_status.is_open]
       IN IF ~market_status.is_open \/ "raises" \in DOMAIN current_data
          THEN hourly' = done
          ELSE IF Len(current_data.rows) >= 2
               THEN LET alerts == check_price_alerts(current_data, NoData)
                        high_priority_alerts == SelectSeq(alerts, LAMBDA a : a.severity = "high")
                    IN IF alerts # <<>> /\ high_priority_alerts # <<>>
                       THEN \E smtp_ok \in BOOLEAN :
                               hourly' = [done EXCEPT !.alerts = alerts,
                                   !.sent = Append(@, high_priority_alerts),
                                   !.delivered = IF send_email_alert(EmailConfig, high_priority_alerts, smtp_ok)
                                                 THEN @ + 1 ELSE @]
                       ELSE hourly' = [done EXCEPT !.alerts = alerts]
               ELSE hourly' = done
    /\ UNCHANGED <<dashboard_data, feed, arrivals, partials>>
    /\ UNCHANGED etlVars
    /\ UNCHANGED liveVars

NextHourly == RunHourlyCheck

SpecHourly == InitHourly /\ [][NextHourly]_vars

(***************************************************************************)
(* Properties                                                              *)
(***************************************************************************)
Statements ==
    <<"start", "extract_customers_csv", "extract_customers_json", "extract_customers_billing",
      "extract_employee_csv", "extract_vehicles", "extract_salaries", "extract_flagged_prompts",
      "transform_customers", "transform_customers_with_billing", "transform_employees",
      "merge_flagged_prompts", "load_customers", "load_employees", "done">>

StatementIndex(p) ==
    IF \E i \in 1..Len(Statements) : Statements[i] = p
    THEN CHOOSE i \in 1..Len(Statements) : Statements[i] = p
    ELSE 0

\* the statement the process is at, or raised in
At ==
    CASE pc = "crashed in extract_flagged_prompts" -> "extract_flagged_prompts"
      [] pc = "crashed in load_customers" -> "load_customers"
      [] pc = "crashed in load_employees" -> "load_employees"
      [] OTHER -> pc

\* statement p has returned in this run
Past(p) == StatementIndex(At) > StatementIndex(p)

\* number of elements of s that satisfy Test
Count(s, Test(_)) == Cardinality({i \in 1..Len(s) : Test(s[i])})

\* the elements of s that satisfy Test, in order
Filter(s, Test(_)) ==
    LET F[i \in 0..Len(s)] ==
            IF i = 0 THEN <<>>
            ELSE IF Test(s[i]) THEN Append(F[i - 1], s[i]) ELSE F[i - 1]
    IN F[Len(s)]

\* '<first_name> <last_name>' stripped, else company_name
NameKey(c) ==
    LET full == Strip(Get(c, "first_name", Empty) \o S(" ") \o Get(c, "last_name", Empty))
    IN IF full # Empty THEN full ELSE Get(c, "company_name", Empty)

HasEmail(c) == "email" \in DOMAIN c /\ c["email"] # Empty /\ c["email"] # None
HasName(c) == "name" \in DOMAIN c /\ c["name"] # Empty /\ c["name"] # None

LastValue(recs, k, f) ==
    LET holders == {i \in 1..Len(recs) :
                        /\ NameKey(recs[i]) # Empty
                        /\ Strip(NameKey(recs[i])) = k
                        /\ f \in DOMAIN recs[i]}
    IN recs[CHOOSE i \in holders : \A j \in holders : j <= i][f]

\* C2: a CSV record and a JSON record with the same name key end up in one
\* output record, which has every field of either and, per field, the value
\* of the last record that has the field (so JSON wins over CSV).
C2_MergeByNameKey ==
    pc = "transform_customers_with_billing" =>
        \A i \in 1..Len(c_csv), j \in 1..Len(c_json) :
            (NameKey(c_csv[i]) = NameKey(c_json[j]) /\ NameKey(c_csv[i]) # Empty) =>
                LET key == Strip(NameKey(c_csv[i]))
                    out == {k \in 1..Len(customers) : customers[k]["name"] = key}
                IN /\ Cardinality(out) = 1
                   /\ \A k \in out :
                        /\ DOMAIN c_csv[i] \cup DOMAIN c_json[j] \subseteq DOMAIN customers[k]
                        /\ \A f \in DOMAIN c_csv[i] \cup DOMAIN c_json[j] :
                              customers[k][f] = LastValue(c_csv \o c_json, key, f)
                        /\ \A f \in DOMAIN c_csv[i] \cap DOMAIN c_json[j] :
                              \E jj \in j..Len(c_json) : customers[k][f] = c_json[jj][f]

C2_Witness ==
    /\ pc = "transform_customers_with_billing"
    /\ \E i \in 1..Len(c_csv), j \in 1..Len(c_json) :
          /\ NameKey(c_csv[i]) = NameKey(c_json[j]) /\ NameKey(c_csv[i]) # Empty
          /\ "email" \in DOMAIN c_json[j] /\ c_csv[i]["email"] # c_json[j]["email"]
          /\ "subscription_type" \in DOMAIN c_json[j]
          /\ \E k \in 1..Len(customers) :
                /\ customers[k]["email"] = c_json[j]["email"]
                /\ customers[k]["subscription_type"] = c_json[j]["subscription_type"]
                /\ customers[k]["company_name"] = c_csv[i]["company_name"]

\* both the composed name and company_name are empty
Unnamed(c) ==
    /\ Strip(Get(c, "first_name", Empty) \o S(" ") \o Get(c, "last_name", Empty)) = Empty
    /\ Get(c, "company_name", Empty) = Empty
Named(c) == ~Unnamed(c)

\* C3: records without a name and a company name are excluded: the output
\* is the output of the named records alone, and every output record has the
\* key of a named source record.
C3_UnnamedExcluded ==
    pc = "transform_customers_with_billing" =>
        /\ customers = transform_customers(Filter(c_csv, Named), Filter(c_json, Named))
        /\ \A k \in 1..Len(customers) :
              \E r \in Range(Filter(c_csv \o c_json, Named)) :
                  customers[k]["name"] = Strip(NameKey(r))
        /\ Len(customers) <= Count(c_csv \o c_json, Named)

C3_Witness ==
    /\ pc = "transform_customers_with_billing"
    /\ \E r \in Range(c_csv \o c_json) : Unnamed(r) /\ HasEmail(r)
    /\ Len(customers) = 1
    /\ Len(c_csv \o c_json) = 2

\* C4: every employee row with an id yields an output record, in order; a
\* row that no vehicle record matches has '' / 0 vehicle fields and a row
\* that no salary record matches has 0 salary, pension and commute_distance.
C4_UnmatchedEmployeeKept ==
    LET HasId(emp) == Get(emp, "employee_id", Empty) # Empty
        kept == Filter(e_csv, HasId)
        NoVehicle(emp) ==
            \A v \in Range(e_veh) :
                v["FullName"] # Get(emp, "first_name", Unknown) \o S(" ")
                                   \o Get(emp, "last_name", Unknown)
        NoSalary(emp) == \A sa \in Range(e_sal) : Str(sa["employee_id"]) # emp["employee_id"]
    IN pc = "merge_flagged_prompts" =>
          /\ Len(employees) = Len(kept)
          /\ \A k \in 1..Len(kept) :
                /\ employees[k]["employee_id"] = kept[k]["employee_id"]
                /\ NoVehicle(kept[k]) =>
                      /\ employees[k]["vehicle_registration"] = Empty
                      /\ employees[k]["vehicle_make"] = Empty
                      /\ employees[k]["vehicle_model"] = Empty
                      /\ employees[k]["vehicle_year"] = 0
                /\ NoSalary(kept[k]) =>
                      /\ employees[k]["salary"] = Num(0)
                      /\ employees[k]["pension"] = Num(0)
                      /\ employees[k]["commute_distance"] = Num(0)

C4_Witness ==
    /\ pc = "merge_flagged_prompts"
    /\ e_veh # <<>> /\ e_sal # <<>>
    /\ \E k \in 1..Len(employees) :
          /\ employees[k]["vehicle_registration"] = Empty /\ employees[k]["vehicle_year"] = 0
          /\ employees[k]["salary"] = Num(0)
          /\ \A v \in Range(e_veh) :
                v["FullName"] # employees[k]["first_name"] \o S(" ") \o employees[k]["last_name"]
          /\ \A sa \in Range(e_sal) : Str(sa["employee_id"]) # employees[k]["employee_id"]
    /\ \E k \in 1..Len(employees) : employees[k]["salary"] # Num(0)

\* C5 as stated: every transformed customer has a non-empty name, every
\* transformed employee a non-empty employee_id, and so has every row.
C5_NonEmptyNameAndId ==
    /\ Past("transform_customers") => \A k \in 1..Len(customers) : HasName(customers[k])
    /\ Past("transform_employees") =>
          \A k \in 1..Len(employees) : employees[k]["employee_id"] # Empty
    /\ \A i \in 1..Len(CustomerRows) : HasName(CustomerRows[i])
    /\ \A i \in 1..Len(EmployeeRows) : EmployeeRows[i]["employee_id"] # Empty

\* records dropped so far in this run for lacking a name / an id
DroppedSoFar ==
    (IF Past("transform_customers") THEN Count(c_csv \o c_json, CustomerSkipped) ELSE 0)
    + (IF Past("transform_employees") THEN Count(e_csv, EmployeeSkipped) ELSE 0)
    + (IF Past("load_customers") THEN Count(customers, CustomerNotLoaded) ELSE 0)
    + (IF Past("load_employees") THEN Count(employees, EmployeeNotLoaded) ELSE 0)

\* messages of this run that report a dropped record
DropMessages ==
    LET Reports(m) == m.text = "Skipping employee with missing ID" IN Count(log, Reports)

\* C6 as stated: every dropped record is reported when it is dropped, so
\* the messages about dropped records are as many as the dropped records.
C6_EveryDropReported == DropMessages = DroppedSoFar

C8_UpsertByEmployeeId ==
    [][(pc = "load_employees" /\ pc' = "done") =>
        LET before == EmployeeRows
            after == EmployeeRows'
            ids == {employees[j]["employee_id"] : j \in 1..Len(employees)} \ {Empty}
            had == {before[i]["employee_id"] : i \in 1..Len(before)}
        IN /\ \A id \in ids :
                LET rows == {i \in 1..Len(after) : after[i]["employee_id"] = id}
                    recs == {j \in 1..Len(employees) : employees[j]["employee_id"] = id}
                    last == CHOOSE j \in recs : \A g \in recs : g <= j
                IN /\ Cardinality(rows) = 1
                   /\ \A i \in rows : after[i] = employees[last]
           /\ \A i \in 1..Len(before) :
                before[i]["employee_id"] \notin ids => after[i] = before[i]
           /\ Len(after) = Len(before) + Cardinality(ids \ had)
    ]_vars

C8_Witness ==
    /\ pc = "done"
    /\ rowCounts[2] > 1 /\ Len(EmployeeRows) = rowCounts[2]
    /\ \E j \in 1..Len(employees) : \E i \in 1..Len(EmployeeRows) :
          /\ employees[j]["employee_id"] # Empty
          /\ EmployeeRows[i] = employees[j]
    /\ \E i \in 1..Len(EmployeeRows) :
          \A j \in 1..Len(employees) :
              employees[j]["employee_id"] # EmployeeRows[i]["employee_id"]

\* C9: a loader call that raises leaves both tables as they were before the
\* call; a call that returns has committed its batch.
C9_BatchAtomic ==
    [][/\ (pc = "load_customers" /\ pc' = "crashed in load_customers") =>
            CustomerRows' = CustomerRows /\ EmployeeRows' = EmployeeRows
       /\ (pc = "load_employees" /\ pc' = "crashed in load_employees") =>
            CustomerRows' = CustomerRows /\ EmployeeRows' = EmployeeRows
       /\ (pc = "load_customers" /\ pc' = "load_employees") =>
            CustomerRows' = load_customers(customers, CustomerRows).rows
       /\ (pc = "load_employees" /\ pc' = "done") =>
            EmployeeRows' = load_employees(employees, EmployeeRows).rows
    ]_vars

C9_Witness ==
    /\ pc = "crashed in load_customers"
    /\ Len(customers) > 1
    /\ HasName(customers[1]) /\ CustomerKwargsOk(customers[1])
    /\ ~CustomerKwargsOk(customers[Len(customers)])
    /\ Len(CustomerRows) = rowCounts[1]

FileOfStatement ==
    [extract_customers_csv |-> "customers_csv", extract_customers_json |-> "customers_json",
     extract_customers_billing |-> "customers_billing", extract_employee_csv |-> "employee_csv",
     extract_vehicles |-> "employees_vehicles", extract_salaries |-> "employees_salaries",
     extract_flagged_prompts |-> "flagged_prompts"]

TypeOfFile ==
    [customers_csv |-> "csv", customers_json |-> "json", customers_billing |-> "xml",
     employee_csv |-> "csv", employees_vehicles |-> "xml", employees_salaries |-> "json",
     flagged_prompts |-> "txt"]

LocalOfStatement ==
    [extract_customers_csv |-> c_csv, extract_customers_json |-> c_json,
     extract_customers_billing |-> c_bill, extract_employee_csv |-> e_csv,
     extract_vehicles |-> e_veh, extract_salaries |-> e_sal,
     extract_flagged_prompts |-> e_flags]

\* C10: extract_file of a missing file returns None for xml and [] otherwise;
\* once the extractor of a missing file has returned, its result is the empty
\* list and a warning naming the file is in the log; and the run only ever
\* ends in a traceback over data read from a file that exists.
C10_MissingFileTolerated ==
    /\ \A k \in FileKeys :
          ~files[k].exists =>
              /\ extract_file(files[k], TypeOfFile[k]).value = <<>>
              /\ extract_file(files[k], TypeOfFile[k]).isNone = (TypeOfFile[k] = "xml")
    /\ \A st \in DOMAIN FileOfStatement :
          (Past(st) /\ ~files[FileOfStatement[st]].exists) =>
              /\ LocalOfStatement[st] = <<>>
              /\ \E i \in 1..Len(log) :
                    /\ log[i].level = "WARNING"
                    /\ log[i].text = "Missing file"
                    /\ log[i].path = FileOfStatement[st]
    /\ pc = "crashed in extract_flagged_prompts" => files["flagged_prompts"].exists
    /\ pc = "crashed in load_customers" =>
          files["customers_csv"].exists \/ files["customers_json"].exists
    /\ pc = "crashed in load_employees" => files["employee_csv"].exists
    /\ (\A k \in FileKeys : ~files[k].exists) =>
          (Past("load_employees") => CustomerRows = <<>> /\ EmployeeRows = <<>>)

C10_Witness ==
    /\ pc = "done"
    /\ ~files["customers_billing"].exists /\ ~files["employees_vehicles"].exists
    /\ ~files["customers_json"].exists /\ ~files["flagged_prompts"].exists
    /\ files["customers_csv"].exists /\ files["employee_csv"].exists
    /\ Len(CustomerRows) > 0 /\ Len(EmployeeRows) > 0
    /\ Len(log) > 6

\* C11 as stated: the output of transform_employees has at most one record
\* per employee_id, also when employees.csv has several rows with one id.
C11_OneRecordPerEmployeeId ==
    Past("transform_employees") =>
        \A i, j \in 1..Len(employees) :
            employees[i]["employee_id"] = employees[j]["employee_id"] => i = j

\* the fields transform_customers_with_billing takes from the billing record
BillingFields == {"payment_method", "street", "city", "postcode", "card_number", "card_cvv"}

\* C12: transform_customers_with_billing sets the six billing fields of each
\* customer to those of the last billing record whose name equals the
\* customer's name, or to '' when there is none; phone_number keeps the
\* customer's own non-empty value and else takes the billing value ('' when
\* there is none); every other field and the list of customers stay.
C12_BillingByExactName ==
    [][(pc = "transform_customers_with_billing" /\ pc' = "transform_employees") =>
        /\ Len(customers') = Len(customers)
        /\ \A k \in 1..Len(customers) :
            LET before == customers[k]
                after == customers'[k]
                hits == {i \in 1..Len(c_bill) : c_bill[i]["name"] = before["name"]}
                last == CHOOSE i \in hits : \A j \in hits : j <= i
                own == Get(before, "phone_number", Empty)
            IN /\ DOMAIN after = DOMAIN before \cup BillingFields \cup {"phone_number"}
               /\ \A f \in DOMAIN before \ (BillingFields \cup {"phone_number"}) :
                     after[f] = before[f]
               /\ \A f \in BillingFields :
                     after[f] = IF hits = {} THEN Empty ELSE c_bill[last][f]
               /\ after["phone_number"] =
                     IF own # Empty /\ own # None THEN own
                     ELSE IF hits = {} THEN Empty ELSE c_bill[last]["phone_number"]]_vars

C12_Witness ==
    /\ pc = "transform_employees"
    /\ Len(customers) = 2
    /\ \E k \in 1..2 :
          /\ Cardinality({i \in 1..Len(c_bill) : c_bill[i]["name"] = customers[k]["name"]}) = 2
          /\ customers[k]["payment_method"] = S("m")
          /\ customers[k]["phone_number"] = S("5")
    /\ \E k \in 1..2 :
          /\ \A i \in 1..Len(c_bill) : c_bill[i]["name"] # customers[k]["name"]
          /\ customers[k]["payment_method"] = Empty
          /\ customers[k]["phone_number"] = Empty

\* C13: each output employee takes its vehicle fields from the last vehicle
\* record whose FullName is '<first_name> <last_name>' of its row, and its
\* salary, pension and commute_distance from the last salary record whose
\* str(employee_id) is the row's employee_id; with no such record the fields
\* are the defaults, so a record that matches no row reaches no output.
C13_SideRecordsByKey ==
    LET HasId(emp) == Get(emp, "employee_id", Empty) # Empty
        kept == Filter(e_csv, HasId)
        Last(hits) == CHOOSE i \in hits : \A j \in hits : j <= i
    IN pc = "merge_flagged_prompts" =>
          /\ Len(employees) = Len(kept)
          /\ \A k \in 1..Len(kept) :
                LET out == employees[k]
                    full == Format(Get(kept[k], "first_name", Unknown)) \o S(" ")
                            \o Format(Get(kept[k], "last_name", Unknown))
                    vhits == {i \in 1..Len(e_veh) : e_veh[i]["FullName"] = full}
                    shits == {i \in 1..Len(e_sal) :
                                 Str(e_sal[i]["employee_id"]) = kept[k]["employee_id"]}
                IN /\ vhits # {} =>
                        /\ out["vehicle_registration"] = e_veh[Last(vhits)]["RegistrationNumber"]
                        /\ out["vehicle_make"] = e_veh[Last(vhits)]["Make"]
                        /\ out["vehicle_model"] = e_veh[Last(vhits)]["Model"]
                        /\ out["vehicle_year"] = e_veh[Last(vhits)]["Year"]
                   /\ vhits = {} =>
                        /\ out["vehicle_registration"] = Empty /\ out["vehicle_make"] = Empty
                        /\ out["vehicle_model"] = Empty /\ out["vehicle_year"] = 0
                   /\ \A f \in {"salary", "pension", "commute_distance"} :
                        out[f] = IF shits # {} /\ f \in DOMAIN e_sal[Last(shits)]
                                 THEN e_sal[Last(shits)][f]
                                 ELSE Num(0)

C13_Witness ==
    /\ pc = "merge_flagged_prompts"
    /\ \E k \in 1..Len(employees) :
          /\ employees[k]["employee_id"] = S("1")
          /\ employees[k]["vehicle_registration"] = S("Q")
          /\ employees[k]["salary"] = Num(6)
          /\ Cardinality({i \in 1..Len(e_veh) :
                e_veh[i]["FullName"] = employees[k]["first_name"] \o S(" ")
                                          \o employees[k]["last_name"]}) = 2
          /\ Cardinality({i \in 1..Len(e_sal) : Str(e_sal[i]["employee_id"]) = S("1")}) = 2
    /\ \E i \in 1..Len(e_sal) :
          \A k \in 1..Len(employees) : Str(e_sal[i]["employee_id"]) # employees[k]["employee_id"]

\* C14: after merge_flagged_prompts every employee's flagged_prompts is the
\* JSON text of exactly the prompt entries of its employee_id, in the order
\* of the prompt list, and '[]' when it has none; an entry whose employee_id
\* no employee has is in no employee's text. The other fields stay.
C14_PromptsByEmployeeId ==
    [][(pc = "merge_flagged_prompts" /\ pc' = "load_customers") =>
        /\ Len(employees') = Len(employees)
        /\ \A k \in 1..Len(employees) :
            LET Mine(p) == p["employee_id"] = employees[k]["employee_id"]
                Others(p) == ~Mine(p)
                mine == Filter(e_flags, Mine)
            IN /\ employees'[k]["flagged_prompts"] = Dumps(mine)
               /\ mine = <<>> => employees'[k]["flagged_prompts"] = <<"[", "]">>
               /\ \A p \in Range(Filter(e_flags, Others)) :
                     \A i \in 1..Len(mine) : mine[i] # p
               /\ \A f \in DOMAIN employees[k] : employees'[k][f] = employees[k][f]]_vars

C14_Witness ==
    /\ pc = "load_customers"
    /\ \E k \in 1..Len(employees) :
          /\ employees[k]["employee_id"] = S("1")
          /\ Cardinality({i \in 1..Len(e_flags) : e_flags[i]["employee_id"] = S("1")}) = 2
          /\ Len(employees[k]["flagged_prompts"]) > 2
    /\ \E k \in 1..Len(employees) : employees[k]["flagged_prompts"] = <<"[", "]">>
    /\ \E i \in 1..Len(e_flags) :
          \A k \in 1..Len(employees) : e_flags[i]["employee_id"] # employees[k]["employee_id"]

ExtractSteps == DOMAIN FileOfStatement
TransformSteps ==
    {"transform_customers", "transform_customers_with_billing", "transform_employees",
     "merge_flagged_prompts"}

\* C15: within a run every step of run_etl either raises or hands over to
\* the next statement of the list, so each statement runs once, the extracts
\* before the transforms before the loads; an extract result changes only in
\* its extract step, customers / employees only in a transform step, a table
\* only in its load step, and load_employees starts from the Customer table
\* that load_customers committed.
C15_LinearOnce ==
    [][(run' = run /\ pc' # pc /\ StatementIndex(pc) > 0) =>
        LET i == StatementIndex(pc)
        IN /\ i < Len(Statements)
           /\ \/ pc' = Statements[i + 1]
              \/ pc' \in Crashed /\ At' = pc
           /\ pc' \in TransformSteps => pc \in ExtractSteps \cup TransformSteps
           /\ pc' = "load_customers" => pc \in TransformSteps
           /\ pc' = "load_employees" =>
                 /\ pc = "load_customers"
                 /\ CustomerRows' = load_customers(customers, CustomerRows).rows
           /\ \A st \in ExtractSteps : LocalOfStatement'[st] # LocalOfStatement[st] => pc = st
           /\ (customers' # customers \/ employees' # employees) => pc \in TransformSteps
           /\ CustomerRows' # CustomerRows => pc = "load_customers"
           /\ EmployeeRows' # EmployeeRows => pc = "load_employees"]_vars

C15_Witness ==
    /\ pc = "done" /\ run = 2
    /\ c_csv # <<>> /\ c_bill # <<>> /\ e_csv # <<>> /\ e_flags # <<>>
    /\ customers # <<>> /\ employees # <<>>
    /\ CustomerRows # <<>> /\ EmployeeRows # <<>>

\* the error message of a failed binding is in the log
BindErrorLogged == \E i \in 1..Len(log) : log[i].level = "ERROR" /\ log[i].text = "DB binding error"

\* C16: a failed db.bind / db.generate_mapping is logged as an error and the
\* process ends with exit status 1, and only then; at that point no extract
\* result, no transformed record and no table has changed in this run, no
\* step of run_etl has logged anything, and no step is taken afterwards.
C16_BindFailureExits ==
    /\ [](BindErrorLogged <=> pc = "exit 1")
    /\ [](pc = "exit 1" =>
            /\ log[Len(log)].level = "ERROR"
            /\ \A i \in 1..Len(log) : log[i].text # "Starting ETL process"
            /\ \A st \in DOMAIN LocalOfStatement : LocalOfStatement[st] = <<>>
            /\ customers = <<>> /\ employees = <<>>
            /\ <<Len(CustomerRows), Len(EmployeeRows)>> = rowCounts)
    /\ [][/\ pc = "bind" => pc' \in {"start", "exit 1"}
          /\ pc' = "exit 1" => pc = "bind" /\ UNCHANGED <<CustomerRows, EmployeeRows, files>>
          /\ pc = "exit 1" => pc' = "exit 1"]_vars

C16_Witness ==
    /\ pc = "exit 1" /\ run = 2
    /\ BindErrorLogged
    /\ files["customers_csv"].exists /\ CustomerRows # <<>>

\* C19: from an empty Customer table, whatever batches load_customers is
\* called on, no two rows have the same non-empty email, so the lookup of a
\* record about to be loaded finds at most one row.
C19_OneRowPerEmail ==
    /\ \A i, j \in 1..Len(CustomerRows) :
          (HasEmail(CustomerRows[i]) /\ CustomerRows[i]["email"] = CustomerRows[j]["email"])
              => i = j
    /\ \A k \in 1..Len(customers) :
          HasEmail(customers[k]) =>
              Cardinality({i \in 1..Len(CustomerRows) :
                              CustomerRows[i]["email"] = customers[k]["email"]}) <= 1

C19_Witness ==
    /\ pc = "load_employees"
    /\ Len(customers) = 3
    /\ \A k \in 1..3 : HasEmail(customers[k]) /\ customers[k]["email"] = S("x")
    /\ Cardinality({i \in 1..Len(CustomerRows) : CustomerRows[i]["email"] = S("x")}) = 1

\* C20 as stated: every record handed to load_customers has only keys that
\* are attributes of the Customer entity, whatever keys the CSV and JSON
\* source records have.
C20_OnlyCustomerAttributes ==
    pc = "load_customers" =>
        \A k \in 1..Len(customers) : DOMAIN customers[k] \subseteq CustomerAttrs

\* the cache key and the fresh data of a request served at minute t
KeyOf(r) ==
    CASE r.endpoint = "matches" -> MatchesKey(r.game, r.limit)
      [] r.endpoint = "players" -> PlayersKey(r.game, r.player_id, r.limit)
      [] r.endpoint = "tournaments" -> TournamentsKey(r.game, r.status, r.limit)

FreshFor(r, t) ==
    CASE r.endpoint = "matches" -> MockMatches(r.game, r.limit, t)
      [] r.endpoint = "players" -> MockPlayers(r.game, r.limit, t)
      [] r.endpoint = "tournaments" -> MockTournaments(r.game, r.status, r.limit, t)

TTLOf(r) ==
    CASE r.endpoint = "matches" -> MatchesTTL
      [] r.endpoint = "players" -> PlayersTTL
      [] r.endpoint = "tournaments" -> TournamentsTTL

\* a request has just been served
Served == requests' = requests + 1

\* C17: a matches / players request with force_refresh returns data generated
\* now and not the cached entry, replaces the entry of its cache key by that
\* data with the timestamp now, leaves every other entry alone, and sets
\* _cache['last_update'] to now.
C17_ForceRefreshRegenerates ==
    [][(Served /\ response'.request.force_refresh) =>
        LET r == response'.request
            kind == r.endpoint
            key == KeyOf(r)
        IN /\ kind \in {"matches", "players"}
           /\ ~response'.cached
           /\ response'.data = FreshFor(r, now)
           /\ DOMAIN cache'[kind] = DOMAIN cache[kind] \cup {key}
           /\ cache'[kind][key] = [data |-> response'.data, timestamp |-> now]
           /\ \A k \in DOMAIN cache[kind] \ {key} : cache'[kind][k] = cache[kind][k]
           /\ \A other \in DOMAIN cache \ {kind} : cache'[other] = cache[other]
           /\ last_update' = <<now>>]_vars

\* a players entry stored by the first request, five minutes old at most and
\* so within its TTL, has been replaced by the second, forced, request
C17_Witness ==
    /\ requests = 2 /\ now = MatchesTTL
    /\ response.request.endpoint = "players" /\ response.request.force_refresh
    /\ ~response.cached
    /\ DOMAIN cache.players = {KeyOf(response.request)}
    /\ cache.matches = EmptyDict /\ cache.tournaments = EmptyDict
    /\ cache.players[KeyOf(response.request)].timestamp = now
    /\ last_update = <<now>>

\* C18 as stated: a request without force_refresh returns the entry of its
\* cache key exactly when the entry exists and is younger than the TTL of
\* the endpoint, and else generates the data and stores a fresh entry; no
\* entry as old as its TTL is returned; and requests with different
\* parameters share no entry, so that an entry returned from the cache is
\* what the parameters of the request generate at the entry's timestamp.
C18_CachedOnlyWhenYoungAndOwn ==
    [][(Served /\ ~response'.request.force_refresh) =>
        LET r == response'.request
            entries == cache[r.endpoint]
            key == KeyOf(r)
            young == key \in DOMAIN entries /\ now - entries[key].timestamp < TTLOf(r)
        IN /\ response'.cached <=> young
           /\ response'.cached =>
                 /\ response'.data = entries[key].data
                 /\ cache' = cache
                 /\ response'.data = FreshFor(r, entries[key].timestamp)
           /\ ~response'.cached =>
                 /\ response'.data = FreshFor(r, now)
                 /\ cache'[r.endpoint][key] = [data |-> response'.data, timestamp |-> now]]_vars

\* C21 as stated: extract_flagged_prompts never raises, whatever the lines of
\* the file are, and yields one entry per 'Timestamp:' line that follows a
\* non-empty 'Employee ID:' line.
C21_PromptsNeverRaise ==
    LET lines == files["flagged_prompts"].content
        cur[i \in 0..Len(lines)] ==
            IF i = 0 THEN None
            ELSE IF StartsWith(Strip(lines[i]), EmployeeIdPrefix)
                 THEN AfterColon(Strip(lines[i]))
                 ELSE cur[i - 1]
        stamps == {i \in 1..Len(lines) :
                      StartsWith(Strip(lines[i]), TimestampPrefix) /\ Truthy(cur[i - 1])}
    IN /\ pc # "crashed in extract_flagged_prompts"
       /\ Past("extract_flagged_prompts") => Len(e_flags) = Cardinality(stamps)

Lists == {"prices", "volumes", "timestamps"}

\* the elements of s are in arrival order
InArrivalOrder(s) == \A i \in 1..Len(s) - 1 : s[i] < s[i + 1]

\* C22: after any sequence of update_dashboard calls each of prices, volumes
\* and timestamps holds at most 100 elements, in arrival order, and they are
\* the most recently received ones
C22_AtMostHundredMostRecent ==
    \A key \in Lists :
        LET list == dashboard_data[key]
        IN /\ Len(list) <= MaxPoints
           /\ InArrivalOrder(list)
           /\ partials = 0 =>
                list = [i \in 1..Min(arrivals, MaxPoints) |-> arrivals - Min(arrivals, MaxPoints) + i]

\* C23: after any sequence of update_dashboard calls, with any data
\* dictionaries, prices, volumes and timestamps have equal length and
\* element i of each list comes from the same call
C23_ListsParallel ==
    /\ Len(dashboard_data.prices) = Len(dashboard_data.volumes)
    /\ Len(dashboard_data.volumes) = Len(dashboard_data.timestamps)
    /\ \A i \in 1..Len(dashboard_data.prices) :
        /\ dashboard_data.prices[i] = dashboard_data.volumes[i]
        /\ dashboard_data.volumes[i] = dashboard_data.timestamps[i]

\* C24: after start_real_time_feed the thread of the simulated feed keeps
\* running, storing a data point in latest_data and calling the callback on
\* each pass; is_connected being true implies the feed is producing data
C24_FeedKeepsProducing ==
    /\ feed.thread # "dead"
    /\ feed.is_connected => feed.thread = "started"

\* the two closes of the fetched data differ by more than 10%
MoveAboveTenPercent(data) ==
    /\ "rows" \in DOMAIN data
    /\ Len(data.rows) >= 2
    /\ 10 * Abs(data.rows[Len(data.rows)]["Close"] - data.rows[Len(data.rows) - 1]["Close"])
         > Abs(data.rows[Len(data.rows) - 1]["Close"])

\* C25: when run_hourly_check has run with the market open and the two
\* closes of the fetched data more than 10% apart, check_price_alerts has
\* produced a 'high' alert and send_email_alert has been called with it
C25_HighAlertsSentAtOnce ==
    (hourly.pc = "returned" /\ hourly.is_open /\ MoveAboveTenPercent(hourly.fetch)) =>
        \E i \in 1..Len(hourly.alerts) :
            /\ hourly.alerts[i].severity = "high"
            /\ \E j \in 1..Len(hourly.sent) :
                \E k \in 1..Len(hourly.sent[j]) : hourly.sent[j][k] = hourly.alerts[i]

====
